---- MODULE Spec2Model ----
(***************************************************************************)
(* RISC-V (RV32I subset) single-cycle simulator: processor core (cpu.js),  *)
(* control unit (control.js), ALU (alu.js), helpers (utils.js) and the UI  *)
(* handlers of main.js that drive the core.                                *)
(*                                                                         *)
(* Representation of a Word.  The code keeps 32-bit values in Uint32Array  *)
(* cells and moves between the unsigned and the signed reading with        *)
(* `>>> 0` and `| 0`.  A Word is held here as the integer in               *)
(* -2^31 .. 2^31-1 with the same 32-bit pattern (the ToInt32 reading), so  *)
(* that `| 0` and `>>> 0` keep the pattern and every operation is computed *)
(* modulo 2^32 on 16-bit halves.  W(hi, lo) names the Word whose unsigned  *)
(* value is hi * 2^16 + lo.                                                *)
(***************************************************************************)
EXTENDS Integers, Sequences, FiniteSets, TLC

----------------------------------------------------------------------------
(* 32-bit arithmetic of the JavaScript operators the code uses *)

Half == 2 ^ 16

Lo(w) == w % Half
Hi(w) == (w \div Half) % Half

\* the Word with unsigned halves hi, lo (each 0..65535)
W(hi, lo) == (IF hi >= 32768 THEN hi - Half ELSE hi) * Half + lo

\* bits [lo+n-1 : lo] of w, i.e. (w >>> lo) & (2^n - 1), lo + n <= 32, n <= 16
Bits(w, lo, n) ==
    IF lo >= 16 THEN (Hi(w) \div (2 ^ (lo - 16))) % (2 ^ n)
    ELSE (w \div (2 ^ lo)) % (2 ^ n)

\* (a + b) | 0
Add32(a, b) ==
    LET l == Lo(a) + Lo(b)
        h == Hi(a) + Hi(b) + (l \div Half)
    IN  W(h % Half, l % Half)

\* ~b
Not32(b) == (-1) - b

\* (a - b) | 0
Sub32(a, b) == Add32(Add32(a, Not32(b)), 1)

RECURSIVE AndN(_, _, _)
\* x & y on n-bit non-negative operands
AndN(x, y, n) ==
    IF n = 0 \/ x = 0 \/ y = 0 THEN 0
    ELSE (x % 2) * (y % 2) + 2 * AndN(x \div 2, y \div 2, n - 1)

And16(x, y) == AndN(x, y, 16)
Or16(x, y) == x + y - And16(x, y)
Xor16(x, y) == x + y - 2 * And16(x, y)

\* a & b, a | b, a ^ b
And32(a, b) == W(And16(Hi(a), Hi(b)), And16(Lo(a), Lo(b)))
Or32(a, b) == W(Or16(Hi(a), Hi(b)), Or16(Lo(a), Lo(b)))
Xor32(a, b) == W(Xor16(Hi(a), Hi(b)), Xor16(Lo(a), Lo(b)))

\* a << s, 0 <= s <= 31
Shl32(a, s) ==
    IF s >= 16
    THEN W((Lo(a) * (2 ^ (s - 16))) % Half, 0)
    ELSE W((Hi(a) * (2 ^ s) + ((Lo(a) * (2 ^ s)) \div Half)) % Half,
           (Lo(a) * (2 ^ s)) % Half)

\* a >>> s, 0 <= s <= 31
Srl32(a, s) ==
    IF s >= 16
    THEN W(0, Hi(a) \div (2 ^ (s - 16)))
    ELSE W(Hi(a) \div (2 ^ s),
           (Lo(a) \div (2 ^ s)) + (Hi(a) % (2 ^ s)) * (2 ^ (16 - s)))

\* a right shift that fills with zeros whatever the sign
SraFillsZeros(a, s) == Srl32(a, s)

\* a >> s, 0 <= s <= 31 (sign-propagating)
Sra32(a, s) ==
    IF s = 31 THEN (IF a < 0 THEN -1 ELSE 0) ELSE a \div (2 ^ s)

\* (a >>> 0) < (b >>> 0)
LtU(a, b) == \/ Hi(a) < Hi(b)
             \/ Hi(a) = Hi(b) /\ Lo(a) < Lo(b)

\* utils.js
signExtend(value, bits) == Sra32(Shl32(value, 32 - bits), 32 - bits)

----------------------------------------------------------------------------
(* cpu.js: decode *)

Null == << >>
Some(v) == << v >>

decode(instr) ==
    LET opcode == Bits(instr, 0, 7)
        immI == signExtend(Srl32(instr, 20), 12)
        immS == signExtend(Or32(Shl32(Bits(instr, 25, 7), 5), Bits(instr, 7, 5)), 12)
        raw == Or32(Or32(Shl32(Bits(instr, 31, 1), 12), Shl32(Bits(instr, 7, 1), 11)),
                    Or32(Shl32(Bits(instr, 25, 6), 5), Shl32(Bits(instr, 8, 4), 1)))
        immB == signExtend(raw, 13)
    IN  [opcode |-> opcode,
         rd |-> Bits(instr, 7, 5),
         funct3 |-> Bits(instr, 12, 3),
         rs1 |-> Bits(instr, 15, 5),
         rs2 |-> Bits(instr, 20, 5),
         funct7 |-> Bits(instr, 25, 7),
         imm |-> IF opcode = 19 \/ opcode = 3 THEN immI
                 ELSE IF opcode = 35 THEN immS
                 ELSE IF opcode = 99 THEN immB
                 ELSE 0,
         immType |-> IF opcode = 19 \/ opcode = 3 THEN "I"
                     ELSE IF opcode = 35 THEN "S"
                     ELSE IF opcode = 99 THEN "B"
                     ELSE ""]

----------------------------------------------------------------------------
(* control.js: controlUnit *)

\* a table that hands the ALU the raw bits {funct7[5], funct3}
AluOpOfRawFunct(funct3, funct7) == funct3 + (IF funct7 = 32 THEN 8 ELSE 0)

\* the funct3 switch of the R-type and I-type ALU classes (alu_op stays 0
\* where no case matches)
AluOpOf(funct3, funct7) ==
    CASE funct3 = 0 -> (IF funct7 = 32 THEN 1 ELSE 0)
      [] funct3 = 7 -> 9
      [] funct3 = 6 -> 8
      [] funct3 = 4 -> 5
      [] funct3 = 2 -> 3
      [] funct3 = 3 -> 4
      [] funct3 = 1 -> 2
      [] funct3 = 5 -> (IF funct7 = 32 THEN 7 ELSE 6)
      [] OTHER -> 0

\* an I-type table that reads funct7 as the R-type one does (ADD/SUB too)
AluOpOfImmAsRType(funct3, funct7) == AluOpOf(funct3, funct7)

AluOpOfImm(funct3, funct7) ==
    CASE funct3 = 0 -> 0
      [] funct3 = 2 -> 3
      [] funct3 = 3 -> 4
      [] funct3 = 4 -> 5
      [] funct3 = 6 -> 8
      [] funct3 = 7 -> 9
      [] funct3 = 1 -> 2
      [] funct3 = 5 -> (IF funct7 = 32 THEN 7 ELSE 6)
      [] OTHER -> 0

\* a comparator choice that uses the signed comparator for BLTU and BGEU
BranchAluOpSignedOnly(funct3) ==
    CASE funct3 = 0 -> 11
      [] funct3 = 1 -> 11
      [] funct3 \in {4, 5, 6, 7} -> 3
      [] OTHER -> 0

BranchAluOp(funct3) ==
    CASE funct3 = 0 -> 11
      [] funct3 = 1 -> 11
      [] funct3 = 4 -> 3
      [] funct3 = 5 -> 3
      [] funct3 = 6 -> 4
      [] funct3 = 7 -> 4
      [] OTHER -> 0

BranchNe(funct3) == IF funct3 \in {1, 5, 7} THEN 1 ELSE 0

\* a control unit that takes the ALU operation of loads and stores from
\* funct3, as for the I-type ALU class
controlUnitMemOpByFunct3(d) ==
    [alu_src |-> IF d.opcode \in {19, 3, 35} THEN 1 ELSE 0,
     alu2reg |-> IF d.opcode = 3 THEN 1 ELSE 0,
     wem |-> IF d.opcode = 35 THEN 1 ELSE 0,
     branch |-> IF d.opcode = 99 THEN 1 ELSE 0,
     branch_ne |-> IF d.opcode = 99 THEN BranchNe(d.funct3) ELSE 0,
     alu_op |-> CASE d.opcode = 51 -> AluOpOf(d.funct3, d.funct7)
                  [] d.opcode \in {19, 3, 35} -> AluOpOfImm(d.funct3, d.funct7)
                  [] d.opcode = 99 -> BranchAluOp(d.funct3)
                  [] OTHER -> 0]

controlUnit(d) ==
    CASE d.opcode = 51 ->
            [alu_src |-> 0, alu2reg |-> 0, wem |-> 0, branch |-> 0, branch_ne |-> 0,
             alu_op |-> AluOpOf(d.funct3, d.funct7)]
      [] d.opcode = 19 ->
            [alu_src |-> 1, alu2reg |-> 0, wem |-> 0, branch |-> 0, branch_ne |-> 0,
             alu_op |-> AluOpOfImm(d.funct3, d.funct7)]
      [] d.opcode = 3 ->
            [alu_src |-> 1, alu2reg |-> 1, wem |-> 0, branch |-> 0, branch_ne |-> 0,
             alu_op |-> 0]
      [] d.opcode = 35 ->
            [alu_src |-> 1, alu2reg |-> 0, wem |-> 1, branch |-> 0, branch_ne |-> 0,
             alu_op |-> 0]
      [] d.opcode = 99 ->
            [alu_src |-> 0, alu2reg |-> 0, wem |-> 0, branch |-> 1,
             branch_ne |-> BranchNe(d.funct3), alu_op |-> BranchAluOp(d.funct3)]
      [] OTHER ->
            [alu_src |-> 0, alu2reg |-> 0, wem |-> 0, branch |-> 0, branch_ne |-> 0,
             alu_op |-> 0]

----------------------------------------------------------------------------
(* alu.js: alu *)

alu(a, b, alu_op) ==
    CASE alu_op = 0 -> Add32(a, b)
      [] alu_op = 1 -> Sub32(a, b)
      [] alu_op = 2 -> Shl32(a, Bits(b, 0, 5))
      [] alu_op = 3 -> (IF a < b THEN 1 ELSE 0)
      [] alu_op = 4 -> (IF LtU(a, b) THEN 1 ELSE 0)
      [] alu_op = 5 -> Xor32(a, b)
      [] alu_op = 6 -> Srl32(a, Bits(b, 0, 5))
      [] alu_op = 7 -> Sra32(a, Bits(b, 0, 5))
      [] alu_op = 8 -> Or32(a, b)
      [] alu_op = 9 -> And32(a, b)
      [] alu_op = 10 -> (IF a = b THEN 1 ELSE 0)
      [] alu_op = 11 -> (IF a = b THEN 1 ELSE 0)
      [] alu_op = 12 -> (IF a < b THEN 1 ELSE 0)
      [] alu_op = 13 -> (IF LtU(a, b) THEN 1 ELSE 0)
      [] OTHER -> 0

----------------------------------------------------------------------------
(* cpu.js: RISCVProcessor -- construction, reset, synchronous step *)

NumRegs == 32
DataMemSize == 32
InstrMemSize == 256

RegIdx == 0 .. (NumRegs - 1)
DataIdx == 0 .. (DataMemSize - 1)
InstrIdx == 0 .. (InstrMemSize - 1)

SeedRegs ==
    [i \in RegIdx |->
        CASE i = 1 -> 1
          [] i = 2 -> 2
          [] i = 3 -> W(65535, 65533)
          [] i = 5 -> 5
          [] i = 7 -> 7
          [] OTHER -> 0]

SeedDataMem ==
    [i \in DataIdx |->
        CASE i = 0 -> 5
          [] i = 1 -> 175
          [] i = 2 -> 210
          [] i = 3 -> 3
          [] OTHER -> 0]

\* a reset that forgets to restore data memory
resetKeepsDataMem(s) ==
    [s EXCEPT !.pc = 0, !.cycle = 0, !.halted = FALSE, !.regs = SeedRegs]

\* a reset that leaves the cycle counter running
resetKeepsCycle(s) ==
    [s EXCEPT !.pc = 0, !.halted = FALSE,
              !.regs = SeedRegs, !.dataMem = SeedDataMem]

\* reset(): a state record s is this.state
reset(s) ==
    [s EXCEPT !.pc = 0, !.cycle = 0, !.halted = FALSE,
              !.regs = SeedRegs, !.dataMem = SeedDataMem]

\* the state the constructor leaves: zeroed arrays, then reset()
NewProcessor ==
    reset([pc |-> 0, cycle |-> 0,
           regs |-> [i \in RegIdx |-> 0],
           dataMem |-> [i \in DataIdx |-> 0],
           instrMem |-> [i \in InstrIdx |-> 0],
           halted |-> FALSE])

\* a halt test that misses EBREAK
IsHaltWordNoEbreak(instr) == instr = 0 \/ instr = 115

\* instr === 0 || instr === 0x00000073 || instr === 0x00100073
IsHaltWord(instr) == instr = 0 \/ instr = 115 \/ instr = W(16, 115)

\* a branch decision that does not look at ctrl.branch
BranchTakenWithoutBranchFlag(ctrl, alu_res) ==
    \/ ctrl.branch_ne = 0 /\ alu_res = 1
    \/ ctrl.branch_ne = 1 /\ alu_res = 0

\* the branch decision of the BRANCH block
BranchTaken(ctrl, alu_res) ==
    /\ ctrl.branch = 1
    /\ \/ ctrl.branch_ne = 0 /\ alu_res = 1
       \/ ctrl.branch_ne = 1 /\ alu_res = 0

\* a write-back condition that lets register 0 be written
WbEnabledAnyRd(ctrl, decoded) ==
    ctrl.wem = 0 /\ decoded.opcode # 99

\* a write-back condition that forgets to exclude stores
WbEnabledOnStores(ctrl, decoded) ==
    decoded.opcode # 99 /\ decoded.rd # 0

\* the write-back condition of the WB block
WbEnabled(ctrl, decoded) ==
    ctrl.wem = 0 /\ decoded.opcode # 99 /\ decoded.rd # 0

\* a write-back that takes the ALU result (the address) for loads too
WbValueAlwaysAlu(decoded, ctrl, memData, alu_res) == alu_res

\* a write-back that never takes the word read from data memory
WbValueZeroForLoads(decoded, ctrl, memData, alu_res) ==
    IF decoded.opcode = 3 THEN 0 ELSE alu_res

\* the value written back: memData for a load, else the ALU result
WbValue(decoded, ctrl, memData, alu_res) ==
    IF decoded.opcode = 3 /\ ctrl.alu2reg = 1 THEN memData ELSE alu_res

\* step() past its first line (the halted test)
StepBody(s) ==
    LET wordIndex == Srl32(s.pc, 2) IN
    IF wordIndex >= InstrMemSize
    THEN [state |-> [s EXCEPT !.halted = TRUE], ret |-> Null]
    ELSE
    LET instr == s.instrMem[wordIndex] IN
    IF IsHaltWord(instr)
    THEN [state |-> [s EXCEPT !.halted = TRUE], ret |-> Null]
    ELSE
    LET decoded == decode(instr)
        ctrl == controlUnit(decoded)
        a == s.regs[decoded.rs1]
        breg == s.regs[decoded.rs2]
        alu_b == IF ctrl.alu_src = 1 THEN decoded.imm ELSE breg
        alu_res == alu(a, alu_b, ctrl.alu_op)
        addrIndex == Bits(alu_res, 2, 5)
        isLoad == ctrl.wem = 0 /\ decoded.opcode = 3
        touches == ctrl.wem = 1 \/ isLoad
        dataMem1 == IF ctrl.wem = 1 THEN [s.dataMem EXCEPT ![addrIndex] = breg]
                    ELSE s.dataMem
        memData == IF isLoad THEN s.dataMem[addrIndex] ELSE 0
        pc_next == IF BranchTaken(ctrl, alu_res) THEN Add32(s.pc, decoded.imm)
                   ELSE Add32(s.pc, 4)
        wb == WbEnabled(ctrl, decoded)
        value == WbValue(decoded, ctrl, memData, alu_res)
        regs1 == IF wb THEN [s.regs EXCEPT ![decoded.rd] = value] ELSE s.regs
    IN  [state |-> [s EXCEPT !.cycle = s.cycle + 1, !.dataMem = dataMem1,
                             !.regs = regs1, !.pc = pc_next],
         ret |-> Some([instr |-> instr, pc_before |-> s.pc, pc_after |-> pc_next,
                       decoded |-> decoded, ctrl |-> ctrl,
                       rs1_val |-> a, rs2_val |-> breg,
                       alu_res |-> alu_res, alu_b |-> alu_b,
                       mem_data |-> memData,
                       mem_addr |-> IF touches THEN Some(alu_res) ELSE Null,
                       mem_index |-> IF touches THEN Some(addrIndex) ELSE Null,
                       wb_we |-> wb,
                       wb_rd |-> IF wb THEN Some(decoded.rd) ELSE Null,
                       wb_val |-> IF wb THEN Some(value) ELSE Null])]

\* a step that does not test the halted flag
stepNoHaltedTest(s) == StepBody(s)

\* step(): the state after the call and the value returned
step(s) ==
    IF s.halted THEN [state |-> s, ret |-> Null] ELSE StepBody(s)

----------------------------------------------------------------------------
(* cpu.js: stepWithStageDelay, one operator per stretch of code between two
   suspension points (`await this._delay(stageDelay)`).  A call in flight is
   a record t of its local variables; t.at names the await it is suspended
   at.  Locals not yet assigned hold 0 (numbers) or Null. *)

NoLocals ==
    [instr |-> 0, pc_before |-> 0, decoded |-> Null, ctrl |-> Null,
     a |-> 0, breg |-> 0, alu_b |-> 0, alu_res |-> 0,
     memData |-> 0, mem_addr |-> Null, mem_index |-> Null,
     pc_next |-> 0, wb_we |-> FALSE, wb_rd |-> Null, wb_val |-> Null]

\* a call that counts a cycle for the fetch that fell outside the memory
SwsdCallCountsFailedFetch(s) ==
    IF s.halted THEN [state |-> s, done |-> TRUE, ret |-> Null, loc |-> NoLocals]
    ELSE IF Srl32(s.pc, 2) >= InstrMemSize
    THEN [state |-> [s EXCEPT !.halted = TRUE, !.cycle = s.cycle + 1],
          done |-> TRUE, ret |-> Null, loc |-> NoLocals]
    ELSE [state |-> s, done |-> FALSE, ret |-> Null,
          loc |-> [NoLocals EXCEPT !.pc_before = s.pc,
                                   !.instr = s.instrMem[Srl32(s.pc, 2)]]]

\* from the call to the first await: halted test, fetch, FETCH notification
SwsdCall(s) ==
    IF s.halted THEN [state |-> s, done |-> TRUE, ret |-> Null, loc |-> NoLocals]
    ELSE IF Srl32(s.pc, 2) >= InstrMemSize
    THEN [state |-> [s EXCEPT !.halted = TRUE], done |-> TRUE, ret |-> Null,
          loc |-> NoLocals]
    ELSE [state |-> s, done |-> FALSE, ret |-> Null,
          loc |-> [NoLocals EXCEPT !.pc_before = s.pc,
                                   !.instr = s.instrMem[Srl32(s.pc, 2)]]]

\* after the FETCH await: halt test, cycle++, decode, register read
SwsdDecode(s, t) ==
    IF IsHaltWord(t.instr)
    THEN [state |-> [s EXCEPT !.halted = TRUE], done |-> TRUE, ret |-> Null, loc |-> t]
    ELSE
    LET decoded == decode(t.instr) IN
        [state |-> [s EXCEPT !.cycle = s.cycle + 1], done |-> FALSE, ret |-> Null,
         loc |-> [t EXCEPT !.decoded = Some(decoded),
                           !.ctrl = Some(controlUnit(decoded)),
                           !.a = s.regs[decoded.rs1],
                           !.breg = s.regs[decoded.rs2]]]

\* an EXEC that always takes the register as operand B
SwsdExecRegOnly(s, t) ==
    [state |-> s, done |-> FALSE, ret |-> Null,
     loc |-> [t EXCEPT !.alu_b = t.breg,
                       !.alu_res = alu(t.a, t.breg, t.ctrl[1].alu_op)]]

\* after the DECODE await: EXEC
SwsdExec(s, t) ==
    LET ctrl == t.ctrl[1]
        alu_b == IF ctrl.alu_src = 1 THEN t.decoded[1].imm ELSE t.breg
    IN  [state |-> s, done |-> FALSE, ret |-> Null,
         loc |-> [t EXCEPT !.alu_b = alu_b,
                           !.alu_res = alu(t.a, alu_b, ctrl.alu_op)]]

\* after the EXEC await: MEM
SwsdMem(s, t) ==
    LET ctrl == t.ctrl[1]
        addrIndex == Bits(t.alu_res, 2, 5)
    IN  IF ctrl.wem = 1
        THEN [state |-> [s EXCEPT !.dataMem[addrIndex] = t.breg],
              done |-> FALSE, ret |-> Null,
              loc |-> [t EXCEPT !.mem_addr = Some(t.alu_res),
                                !.mem_index = Some(addrIndex)]]
        ELSE IF t.decoded[1].opcode = 3
        THEN [state |-> s, done |-> FALSE, ret |-> Null,
              loc |-> [t EXCEPT !.mem_addr = Some(t.alu_res),
                                !.mem_index = Some(addrIndex),
                                !.memData = s.dataMem[addrIndex]]]
        ELSE [state |-> s, done |-> FALSE, ret |-> Null, loc |-> t]

\* after the MEM await: BRANCH and WB
SwsdWb(s, t) ==
    LET ctrl == t.ctrl[1]
        decoded == t.decoded[1]
        pc_next == IF BranchTaken(ctrl, t.alu_res) THEN Add32(s.pc, decoded.imm)
                   ELSE Add32(s.pc, 4)
        wb == WbEnabled(ctrl, decoded)
        value == WbValue(decoded, ctrl, t.memData, t.alu_res)
    IN  [state |-> IF wb THEN [s EXCEPT !.regs[decoded.rd] = value] ELSE s,
         done |-> FALSE, ret |-> Null,
         loc |-> [t EXCEPT !.pc_next = pc_next, !.wb_we = wb,
                           !.wb_rd = IF wb THEN Some(decoded.rd) ELSE Null,
                           !.wb_val = IF wb THEN Some(value) ELSE Null]]

\* after the WB await: pc update and return
SwsdFinish(s, t) ==
    [state |-> [s EXCEPT !.pc = t.pc_next], done |-> TRUE,
     ret |-> Some([instr |-> t.instr, pc_before |-> t.pc_before,
                   pc_after |-> t.pc_next,
                   decoded |-> t.decoded[1], ctrl |-> t.ctrl[1],
                   rs1_val |-> t.a, rs2_val |-> t.breg,
                   alu_res |-> t.alu_res, alu_b |-> t.alu_b,
                   mem_data |-> t.memData,
                   mem_addr |-> t.mem_addr, mem_index |-> t.mem_index,
                   wb_we |-> t.wb_we, wb_rd |-> t.wb_rd, wb_val |-> t.wb_val]),
     loc |-> t]

\* the code that runs when a call suspended at `at` is resumed
SwsdResume(s, t, at) ==
    CASE at = "FETCH" -> SwsdDecode(s, t)
      [] at = "DECODE" -> SwsdExec(s, t)
      [] at = "EXEC" -> SwsdMem(s, t)
      [] at = "MEM" -> SwsdWb(s, t)
      [] at = "WB" -> SwsdFinish(s, t)

\* the await a call is suspended at after resuming from `at`
NextAwait(at) ==
    CASE at = "CALL" -> "FETCH"
      [] at = "FETCH" -> "DECODE"
      [] at = "DECODE" -> "EXEC"
      [] at = "EXEC" -> "MEM"
      [] at = "MEM" -> "WB"
      [] OTHER -> "RET"

----------------------------------------------------------------------------
(* cpu.js: loadProgram.  A source text is a sequence of lines; a line is
     [k |-> "hex", digits |-> <<d1, ..., dn>>]  only hexadecimal digits
     [k |-> "skip"]      blank, or starting with # or // (filtered out)
     [k |-> "empty"]     a line assembleLine returns null for (only a ; comment)
     [k |-> "bad"]       a non-hex line assembleLine throws on *)

RECURSIVE ParseHex(_, _)
\* parseInt(line, 16) >>> 0, digits read left to right (exact up to 13 digits)
ParseHex(digits, acc) ==
    IF digits = << >> THEN acc
    ELSE ParseHex(Tail(digits), Add32(Shl32(acc, 4), Head(digits)))

\* one turn of the for loop of loadProgram, r holding instrMem, addr and
\* whether a line threw: a write past the end of the typed array is dropped
\* while addr still advances
LoadLine(r, line) ==
    CASE line.k = "skip" -> r
      [] line.k = "empty" -> r
      [] line.k = "bad" -> [r EXCEPT !.threw = TRUE]
      [] line.k = "hex" ->
            [r EXCEPT !.mem = IF r.addr < InstrMemSize
                               THEN [r.mem EXCEPT ![r.addr] = ParseHex(line.digits, 0)]
                               ELSE r.mem,
                      !.addr = r.addr + 1]

RECURSIVE LoadLines(_, _, _, _)
\* the for loop of loadProgram over lines[lo .. hi], taken half by half (so
\* that a text of hundreds of lines nests a few levels deep); a throwing
\* line ends the loop
LoadLines(r, lines, lo, hi) ==
    IF r.threw \/ lo > hi THEN r
    ELSE IF lo = hi THEN LoadLine(r, lines[lo])
    ELSE LET mid == (lo + hi) \div 2 IN
         LoadLines(LoadLines(r, lines, lo, mid), lines, mid + 1, hi)

\* loadProgram(sourceCode): the state after the call, the count returned and
\* whether the call threw (then reset() was not reached)
loadProgram(s, lines) ==
    LET r == LoadLines([mem |-> [i \in InstrIdx |-> 0], addr |-> 0, threw |-> FALSE],
                       lines, 1, Len(lines))
        s1 == [s EXCEPT !.instrMem = r.mem]
    IN  IF r.threw THEN [state |-> s1, threw |-> TRUE, ret |-> 0]
        ELSE [state |-> reset(s1), threw |-> FALSE, ret |-> r.addr]

----------------------------------------------------------------------------
(* Inputs explored *)

MaxTasks == 2      \* stepWithStageDelay calls in flight at once
MaxCycle == 3      \* cap on the cycle counter
MaxEvents == 3     \* user events (clicks, edits, direct calls) in one behaviour

HexLine(d) == [k |-> "hex", digits |-> d]
BadLine == [k |-> "bad", digits |-> << >>]
SkipLine == [k |-> "skip", digits |-> << >>]
EmptyLine == [k |-> "empty", digits |-> << >>]

\* raw-hex texts given to handleLoad (first line hexadecimal)
Sources ==
    << \* addi x1,x0,5 ; add x3,x1,x2 ; addi x0,x1,5
       << HexLine(<<0,0,5,0,0,0,9,3>>), SkipLine, HexLine(<<0,0,2,0,8,1,11,3>>),
          HexLine(<<0,0,5,0,8,0,1,3>>) >>,
       \* sw x1,0(x0) ; lw x2,0(x0) ; lw x0,4(x0) ; ebreak
       << HexLine(<<0,0,1,0,2,0,2,3>>), HexLine(<<0,0,0,0,2,1,0,3>>),
          EmptyLine, HexLine(<<0,0,4,0,2,0,0,3>>), HexLine(<<1,0,0,0,7,3>>) >>,
       \* beq x0,x0,+2 (raw word, offset not a multiple of 4) ; ecall
       << HexLine(<<1,6,3>>), HexLine(<<7,3>>) >>,
       \* addi x1,x0,5 ; a line the line assembler rejects
       << HexLine(<<0,0,5,0,0,0,9,3>>), BadLine >> >>

\* registers the operator edits, and the text typed (Null: not a number)
EditRegs == {0, 1}
EditVals == {Null, Some(9)}

----------------------------------------------------------------------------
(* main.js: the page's state and its event handlers *)

VARIABLES
    state,              \* cpu.state
    isStepInProgress,   \* main.js
    isRunning,          \* main.js
    tasks,              \* stepWithStageDelay calls in flight, oldest first
    lastOp,             \* history: the handler or continuation that ran last
    ret,                \* history: value returned by the step or loadProgram call that returned in the last step, else Null
    events,             \* history: number of user events so far
    quiet,              \* history: nothing user-initiated since the last reset/load
    source,             \* the text in #program-input (AsmSpec), else << >>
    asm,                \* history: what the last assembleProgram call did, else Null
    codec,              \* a field tuple under encoding and decoding (CodecSpec), else Null
    probe,              \* operands or a word given to the ALU and the control unit (UnitSpec), else Null
    notes               \* history: the notifications of the phased call started last (PhaseSpec)

vars == <<state, isStepInProgress, isRunning, tasks, lastOp, ret, quiet, events,
          source, asm, codec, probe, notes>>

\* the variables the event handlers of the page leave alone
bench == <<source, asm, codec, probe, notes>>

Op(name, i) == [name |-> name, i |-> i]

Init ==
    /\ state = NewProcessor
    /\ isStepInProgress = FALSE
    /\ isRunning = FALSE
    /\ tasks = << >>
    /\ lastOp = Op("init", 0)
    /\ ret = Null
    /\ quiet = FALSE
    /\ events = 0
    /\ source = << >>
    /\ asm = Null
    /\ codec = Null
    /\ probe = Null
    /\ notes = << >>

\* history kept per call in flight: what else ran while it was suspended
Mix(t, what) ==
    [t EXCEPT !.mixed = IF what = "edit" /\ t.mixed # "other" THEN "edits" ELSE "other"]

MixAll(ts, what) == [j \in DOMAIN ts |-> Mix(ts[j], what)]

MixOthers(ts, i) == [j \in DOMAIN ts |-> IF j = i THEN ts[j] ELSE Mix(ts[j], "other")]

RemoveAt(ts, i) == SubSeq(ts, 1, i - 1) \o SubSeq(ts, i + 1, Len(ts))

\* one more user event
UserEvent ==
    /\ events < MaxEvents
    /\ events' = events + 1

NewTask(owner, at, loc, s) ==
    [owner |-> owner, at |-> at, loc |-> loc, start |-> s, mixed |-> "none"]

\* handleStep: the click, up to the first await inside stepWithStageDelay (or
\* through `isStepInProgress = false` when the call returns at once)
HandleStep ==
    /\ UserEvent
    /\ UNCHANGED bench
    /\ Len(tasks) < MaxTasks
    /\ IF isStepInProgress
       THEN /\ lastOp' = Op("handleStepIgnored", 0)
            /\ ret' = Null
            /\ UNCHANGED <<state, isStepInProgress, isRunning, tasks, quiet>>
       ELSE LET r == SwsdCall(state) IN
            /\ state' = r.state
            /\ quiet' = FALSE
            /\ UNCHANGED isRunning
            /\ IF r.done
               THEN /\ isStepInProgress' = FALSE
                    /\ tasks' = MixAll(tasks, "other")
                    /\ ret' = r.ret
                    /\ lastOp' = Op("stepReturnedAtOnce", 0)
               ELSE /\ isStepInProgress' = TRUE
                    /\ tasks' = Append(MixAll(tasks, "other"),
                                       NewTask("step", "FETCH", r.loc, state))
                    /\ ret' = Null
                    /\ lastOp' = Op("stepCalled", Len(tasks) + 1)

\* handleRun: Pause when running; otherwise Run, and runLoop() up to its
\* first await
HandleRun ==
    /\ UserEvent
    /\ UNCHANGED bench
    /\ isRunning \/ state.halted \/ Len(tasks) < MaxTasks
    /\ quiet' = FALSE
    /\ UNCHANGED isStepInProgress
    /\ IF isRunning
       THEN /\ isRunning' = FALSE
            /\ lastOp' = Op("pause", 0)
            /\ ret' = Null
            /\ UNCHANGED <<state, tasks>>
       ELSE IF state.halted
       THEN \* the while test fails at once: isRunning = false again
            /\ isRunning' = FALSE
            /\ lastOp' = Op("runEndedAtOnce", 0)
            /\ ret' = Null
            /\ UNCHANGED <<state, tasks>>
       ELSE LET r == SwsdCall(state) IN
            /\ isRunning' = TRUE
            /\ state' = r.state
            /\ IF r.done
               THEN /\ tasks' = Append(MixAll(tasks, "other"),
                                       NewTask("run", "GAP", r.loc, state))
                    /\ ret' = r.ret
                    /\ lastOp' = Op("stepReturnedAtOnce", Len(tasks) + 1)
               ELSE /\ tasks' = Append(MixAll(tasks, "other"),
                                       NewTask("run", "FETCH", r.loc, state))
                    /\ ret' = Null
                    /\ lastOp' = Op("stepCalled", Len(tasks) + 1)

\* a suspended stepWithStageDelay call is resumed by its timer; when it
\* returns, its caller's continuation runs (handleStep: isStepInProgress =
\* false; runLoop: updateUI and the await of the gap between cycles)
Resume(i) ==
    /\ UNCHANGED <<events, bench>>
    /\ tasks[i].at \in {"FETCH", "DECODE", "EXEC", "MEM", "WB"}
    /\ SwsdResume(state, tasks[i].loc, tasks[i].at).state.cycle <= MaxCycle
    /\ LET t == tasks[i]
           r == SwsdResume(state, t.loc, t.at)
           others == MixOthers(tasks, i)
       IN  /\ state' = r.state
           /\ UNCHANGED <<isRunning, quiet>>
           /\ IF r.done
              THEN /\ ret' = r.ret
                   /\ lastOp' = Op("stepReturned", i)
                   /\ IF t.owner = "step"
                      THEN /\ isStepInProgress' = FALSE
                           /\ tasks' = RemoveAt(others, i)
                      ELSE /\ tasks' = [others EXCEPT ![i].at = "GAP"]
                           /\ UNCHANGED isStepInProgress
              ELSE /\ tasks' = [others EXCEPT ![i].at = NextAwait(t.at),
                                             ![i].loc = r.loc]
                   /\ lastOp' = Op("resumed", i)
                   /\ ret' = Null
                   /\ UNCHANGED isStepInProgress

\* runLoop after the gap between cycles: the while test, then either the
\* next stepWithStageDelay call or the end of the loop
RunLoop(i) ==
    /\ UNCHANGED <<events, bench>>
    /\ tasks[i].at = "GAP"
    /\ UNCHANGED <<isStepInProgress, quiet>>
    /\ IF isRunning /\ ~state.halted
       THEN LET r == SwsdCall(state)
                others == MixOthers(tasks, i)
            IN  /\ state' = r.state
                /\ UNCHANGED isRunning
                /\ IF r.done
                   THEN /\ tasks' = [others EXCEPT ![i].start = state,
                                                  ![i].mixed = "none"]
                        /\ ret' = r.ret
                        /\ lastOp' = Op("stepReturnedAtOnce", i)
                   ELSE /\ tasks' = [others EXCEPT
                                        ![i] = NewTask("run", "FETCH", r.loc, state)]
                        /\ ret' = Null
                        /\ lastOp' = Op("stepCalled", i)
       ELSE /\ isRunning' = FALSE
            /\ tasks' = RemoveAt(tasks, i)
            /\ lastOp' = Op("runLoopEnded", i)
            /\ ret' = Null
            /\ UNCHANGED state

\* handleReset
HandleReset ==
    /\ UserEvent
    /\ UNCHANGED bench
    /\ isRunning' = FALSE
    /\ isStepInProgress' = FALSE
    /\ state' = reset(state)
    /\ tasks' = MixAll(tasks, "other")
    /\ lastOp' = Op("reset", 0)
    /\ quiet' = TRUE
    /\ ret' = Null

\* handleLoad with a raw-hex text: cpu.loadProgram(code); a throw leaves the
\* handler before updateUI
HandleLoad(n) ==
    LET r == loadProgram(state, Sources[n]) IN
    /\ UserEvent
    /\ UNCHANGED bench
    /\ state' = r.state
    /\ tasks' = MixAll(tasks, "other")
    /\ lastOp' = Op(IF r.threw THEN "loadThrew" ELSE "load", n)
    /\ quiet' = ~r.threw
    /\ ret' = Null
    /\ UNCHANGED <<isStepInProgress, isRunning>>

\* the change handler renderRegisters puts on the input of register i
\* (text: Null when parseInt gives NaN)
EditValue(i, text) == IF i = 0 \/ text = Null THEN 0 ELSE text[1]

RegEdit(i, text) ==
    /\ UserEvent
    /\ UNCHANGED bench
    /\ state' = [state EXCEPT !.regs[i] = EditValue(i, text)]
    /\ tasks' = MixAll(tasks, "edit")
    /\ lastOp' = Op("edit", i)
    /\ quiet' = FALSE
    /\ ret' = Null
    /\ UNCHANGED <<isStepInProgress, isRunning>>

\* cpu.step() called directly, with no phased call in flight
SyncStep ==
    /\ UserEvent
    /\ UNCHANGED bench
    /\ tasks = << >>
    /\ step(state).state.cycle <= MaxCycle
    /\ LET r == step(state) IN
       /\ state' = r.state
       /\ ret' = r.ret
    /\ lastOp' = Op("step", 0)
    /\ quiet' = FALSE
    /\ UNCHANGED <<isStepInProgress, isRunning, tasks>>

Next ==
    \/ HandleStep
    \/ HandleRun
    \/ \E i \in DOMAIN tasks : Resume(i)
    \/ \E i \in DOMAIN tasks : RunLoop(i)
    \/ HandleReset
    \/ \E n \in DOMAIN Sources : HandleLoad(n)
    \/ \E i \in EditRegs, text \in EditVals : RegEdit(i, text)
    \/ SyncStep

Spec == Init /\ [][Next]_vars

----------------------------------------------------------------------------
(* Properties *)

\* the step call (synchronous or phased) that returned in the last step
Returned == lastOp.name \in {"step", "stepReturned", "stepReturnedAtOnce"}

\* C1: register 0 holds 0 in every reachable state, whatever steps, resets,
\* loads and register edits (register 0 included) came before.
RegisterZeroIsZero == state.regs[0] = 0

\* C1 witness: an ALU or load instruction naming x0 as destination has just
\* executed (its write-back was suppressed).
RegisterZeroTargeted ==
    /\ Returned /\ ret # Null
    /\ ret[1].decoded.rd = 0
    /\ ret[1].decoded.opcode \in {19, 3}
    /\ ~ret[1].wb_we

\* C2: the program counter is a multiple of 4 in every reachable state, raw
\* hex programs with branch offsets that are even but not multiples of 4
\* included.
PcIsWordAligned == state.pc % 4 = 0

\* C3: a phased step that ran with nothing interleaved ends in the state
\* the synchronous step() reaches from the state the call started in, and
\* returns the same record (or both return null).
PhasedStepAgreesWithStep ==
    [][/\ (lastOp'.name = "stepReturned" /\ tasks[lastOp'.i].mixed = "none") =>
            LET r == step(tasks[lastOp'.i].start) IN
            state' = r.state /\ ret' = r.ret
       /\ lastOp'.name = "stepReturnedAtOnce" =>
            LET r == step(state) IN
            state' = r.state /\ ret' = r.ret]_vars

\* C3 witness: a phased step of the run loop has returned a result record
\* for a store, with nothing interleaved since its call.
PhasedStoreRanAlone ==
    /\ lastOp.name = "stepReturned" /\ ret # Null
    /\ ret[1].decoded.opcode = 35
    /\ lastOp.i \in DOMAIN tasks
    /\ tasks[lastOp.i].at = "GAP" /\ tasks[lastOp.i].mixed = "none"

\* C4: register edits never take effect inside a step: a phased step during
\* which only register edits were interleaved has the effect (register
\* written, memory cell written, next pc) of step() applied to the state in
\* which the call started.
EditsNeverReachAStepInFlight ==
    [][(lastOp'.name = "stepReturned" /\ tasks[lastOp'.i].mixed = "edits") =>
            LET r == step(tasks[lastOp'.i].start).ret IN
            /\ (ret' = Null) = (r = Null)
            /\ ret' # Null =>
                /\ ret'[1].wb_we = r[1].wb_we
                /\ ret'[1].wb_rd = r[1].wb_rd
                /\ ret'[1].wb_val = r[1].wb_val
                /\ ret'[1].mem_index = r[1].mem_index
                /\ ret'[1].rs2_val = r[1].rs2_val
                /\ ret'[1].pc_after = r[1].pc_after]_vars

\* C5: after a Reset or a program load, nothing changes the core until the
\* next user event: it stays at pc = 0, cycle = 0, halted = false with seed
\* registers and seed data memory, steps in flight notwithstanding.
CoreStaysResetUntilNextEvent ==
    quiet => /\ state.pc = 0 /\ state.cycle = 0 /\ ~state.halted
             /\ state.regs = SeedRegs /\ state.dataMem = SeedDataMem

\* C6: a step call on a halted core returns null and changes nothing, and
\* halted, once true, stays true until reset or loadProgram runs.
HaltedCoreIgnoresStep ==
    [][/\ (state.halted /\ lastOp'.name \in {"step", "stepReturnedAtOnce"}) =>
            state' = state /\ ret' = Null
       /\ (state.halted /\ ~state'.halted) =>
            lastOp'.name \in {"reset", "load"}]_vars

\* C6 witness: a step call has just returned null on a core that was halted
\* at a word that is not a halt word (so only the halted test stopped it).
SteppedWhileHalted ==
    /\ lastOp.name \in {"step", "stepReturnedAtOnce"}
    /\ state.halted /\ ret = Null
    /\ state.pc = 0 /\ state.instrMem[0] = W(80, 147)

\* the words that end a program: 0, ECALL, EBREAK
HaltWords == {0, 115, W(16, 115)}

\* C7: a step that fetched 0, 0x00000073 or 0x00100073 sets halted, returns
\* null and leaves pc, cycle, registers and data memory as they were.
HaltWordOnlySetsHalted ==
    [][/\ ( /\ lastOp'.name = "step" /\ ~state.halted
            /\ Srl32(state.pc, 2) < InstrMemSize
            /\ state.instrMem[Srl32(state.pc, 2)] \in HaltWords ) =>
            state' = [state EXCEPT !.halted = TRUE] /\ ret' = Null
       /\ ( /\ lastOp'.name \in {"resumed", "stepReturned"}
            /\ tasks[lastOp'.i].at = "FETCH"
            /\ tasks[lastOp'.i].loc.instr \in HaltWords ) =>
            /\ lastOp'.name = "stepReturned"
            /\ state' = [state EXCEPT !.halted = TRUE] /\ ret' = Null
            /\ tasks[lastOp'.i].mixed = "none" =>
                  state' = [tasks[lastOp'.i].start EXCEPT !.halted = TRUE]]_vars

\* C7 witness: a phased step has just halted the core on EBREAK after three
\* executed instructions.
HaltedOnEbreak ==
    /\ lastOp.name = "stepReturned" /\ ret = Null /\ state.halted
    /\ state.pc = 12 /\ state.cycle = 3
    /\ state.instrMem[3] = W(16, 115)

\* the register seed: x1 = 1, x2 = 2, x3 = 0xFFFFFFFD, x5 = 5, x7 = 7
SeedRegsTable ==
    [i \in 0 .. 31 |-> IF i = 1 THEN 1 ELSE IF i = 2 THEN 2
                       ELSE IF i = 3 THEN W(65535, 65533)
                       ELSE IF i = 5 THEN 5 ELSE IF i = 7 THEN 7 ELSE 0]

\* the data-memory seed: 5, 0xAF, 0xD2, 3, then zeros
SeedDataMemTable ==
    [i \in 0 .. 31 |-> IF i = 0 THEN 5 ELSE IF i = 1 THEN 175
                       ELSE IF i = 2 THEN 210 ELSE IF i = 3 THEN 3 ELSE 0]

\* C8: reset, from any state, gives pc = 0, cycle = 0, halted = false, the
\* register seed and the data-memory seed, leaves instruction memory alone,
\* and a second reset changes nothing more.
ResetRestoresSeed ==
    [][lastOp'.name = "reset" =>
            /\ state'.pc = 0 /\ state'.cycle = 0 /\ ~state'.halted
            /\ state'.regs = SeedRegsTable
            /\ state'.dataMem = SeedDataMemTable
            /\ state'.instrMem = state.instrMem
            /\ reset(state') = state']_vars

\* C8 witness: a reset has just run on a core holding a program, while a
\* step in flight had already stored x1 = 1 to data-memory cell 0.
ResetAfterStore ==
    /\ lastOp.name = "reset"
    /\ state.instrMem[0] = W(16, 8227)
    /\ state.dataMem[0] = 5
    /\ \E i \in DOMAIN tasks :
          /\ tasks[i].at \in {"MEM", "WB"}
          /\ tasks[i].loc.mem_index = Some(0)
          /\ tasks[i].loc.decoded[1].opcode = 35
          /\ tasks[i].loc.breg = 1

\* the words a text holds, in order: its hexadecimal lines
WordsOf(lines) ==
    LET hex == SelectSeq(lines, LAMBDA l : l.k = "hex")
    IN  [j \in 1 .. Len(hex) |-> ParseHex(hex[j].digits, 0)]

\* instruction memory holding exactly these words from index 0, zeros above
ImageOf(words) ==
    [i \in 0 .. 255 |-> IF i < Len(words) THEN words[i + 1] ELSE 0]

\* what C9 says of the state a loadProgram call leaves
LoadedAndReset(s, lines) ==
    /\ s.instrMem = ImageOf(WordsOf(lines))
    /\ s.pc = 0 /\ s.cycle = 0 /\ ~s.halted
    /\ s.regs = SeedRegsTable /\ s.dataMem = SeedDataMemTable

\* C9: every loadProgram call leaves instruction memory holding exactly the
\* new program's words from index 0 (zeros elsewhere) and the core reset:
\* pc = 0, cycle = 0, halted = false, seed registers and seed data memory.
EveryLoadInstallsAndResets ==
    [][lastOp'.name \in {"load", "loadThrew"} =>
            LoadedAndReset(state', Sources[lastOp'.i])]_vars

\* the same, of the calls that return (no line throws)
ReturningLoadInstallsAndResets ==
    [][lastOp'.name = "load" => LoadedAndReset(state', Sources[lastOp'.i])]_vars

\* the register file C10 allows after an instruction word: rd written (with
\* the memory word for a load, the ALU result otherwise) unless the word is
\* a store, a branch or names x0; nothing else changed
RegsAllowed(regs, instr, aluRes, memWord) ==
    LET opcode == Bits(instr, 0, 7)
        rd == Bits(instr, 7, 5)
    IN  IF opcode # 35 /\ opcode # 99 /\ rd # 0
        THEN [regs EXCEPT ![rd] = IF opcode = 3 THEN memWord ELSE aluRes]
        ELSE regs

\* C10: a step writes a register only for a word that is no store, no branch
\* and has rd # 0; it then writes register rd alone, with the word read from
\* data memory for a load and the ALU result otherwise.
StepWritesOnlyRd ==
    [][/\ (lastOp'.name = "step" /\ ret' # Null) =>
            state'.regs = RegsAllowed(state.regs, ret'[1].instr, ret'[1].alu_res,
                                      state.dataMem[Bits(ret'[1].alu_res, 2, 5)])
       /\ (lastOp'.name = "step" /\ ret' = Null) => state'.regs = state.regs
       /\ lastOp'.name \in {"stepCalled", "stepReturnedAtOnce", "stepReturned"} =>
            state'.regs = state.regs
       /\ lastOp'.name = "resumed" =>
            LET t == tasks[lastOp'.i] IN
            state'.regs = IF t.at = "MEM"
                          THEN RegsAllowed(state.regs, t.loc.instr, t.loc.alu_res,
                                           t.loc.memData)
                          ELSE state.regs]_vars

\* C10 witness: lw x2,0(x0) has just executed after sw x1,0(x0): x2 holds
\* the stored word, not the address.
LoadWroteRd ==
    /\ Returned /\ ret # Null
    /\ ret[1].decoded.opcode = 3 /\ ret[1].decoded.rd = 2
    /\ ret[1].wb_we /\ ret[1].alu_res = 0
    /\ state.regs[2] = 1 /\ state.dataMem[0] = 1

----------------------------------------------------------------------------
(* utils.js: the encoders R, I, S, B of assembleProgram (no masking of
   register and funct fields), and cpu.js: the encoders of assembleLine
   (every field masked) *)

RECURSIVE OrAll(_)
\* w1 | w2 | ... | wn
OrAll(ws) == IF ws = << >> THEN 0 ELSE Or32(Head(ws), OrAll(Tail(ws)))

\* an R encoder that puts rd and rs1 in each other's place
RSwapsRdRs1(f7, f3, op, rd, rs1, rs2) ==
    OrAll(<<Shl32(f7, 25), Shl32(rs2, 20), Shl32(rd, 15),
            Shl32(f3, 12), Shl32(rs1, 7), op>>)

R(f7, f3, op, rd, rs1, rs2) ==
    OrAll(<<Shl32(f7, 25), Shl32(rs2, 20), Shl32(rs1, 15),
            Shl32(f3, 12), Shl32(rd, 7), op>>)

I(f3, op, rd, rs1, imm) ==
    OrAll(<<Shl32(And32(imm, 4095), 20), Shl32(rs1, 15),
            Shl32(f3, 12), Shl32(rd, 7), op>>)

\* an S encoder that forgets the mask of imm[4:0]
SNoLowMask(f3, op, rs1, rs2, imm) ==
    OrAll(<<Shl32(And32(Sra32(imm, 5), 127), 25), Shl32(rs2, 20), Shl32(rs1, 15),
            Shl32(f3, 12), Shl32(imm, 7), op>>)

S(f3, op, rs1, rs2, imm) ==
    LET imm11_5 == And32(Sra32(imm, 5), 127)
        imm4_0 == And32(imm, 31)
    IN  OrAll(<<Shl32(imm11_5, 25), Shl32(rs2, 20), Shl32(rs1, 15),
                Shl32(f3, 12), Shl32(imm4_0, 7), op>>)

B(f3, op, rs1, rs2, imm) ==
    LET imm12 == And32(Sra32(imm, 12), 1)
        imm10_5 == And32(Sra32(imm, 5), 63)
        imm4_1 == And32(Sra32(imm, 1), 15)
        imm11 == And32(Sra32(imm, 11), 1)
    IN  OrAll(<<Shl32(imm12, 31), Shl32(imm10_5, 25), Shl32(rs2, 20),
                Shl32(rs1, 15), Shl32(f3, 12),
                Shl32(imm11, 7), Shl32(imm4_1, 8), op>>)

encodeR(funct7, rs2, rs1, funct3, rd, opcode) ==
    OrAll(<<Shl32(And32(funct7, 127), 25), Shl32(And32(rs2, 31), 20),
            Shl32(And32(rs1, 31), 15), Shl32(And32(funct3, 7), 12),
            Shl32(And32(rd, 31), 7), And32(opcode, 127)>>)

encodeI(imm, rs1, funct3, rd, opcode) ==
    OrAll(<<Shl32(And32(imm, 4095), 20), Shl32(And32(rs1, 31), 15),
            Shl32(And32(funct3, 7), 12), Shl32(And32(rd, 31), 7),
            And32(opcode, 127)>>)

encodeS(imm, rs2, rs1, funct3, opcode) ==
    LET imm12 == And32(imm, 4095)
        imm4_0 == And32(imm12, 31)
        imm11_5 == And32(Sra32(imm12, 5), 127)
    IN  OrAll(<<Shl32(imm11_5, 25), Shl32(And32(rs2, 31), 20),
                Shl32(And32(rs1, 31), 15), Shl32(And32(funct3, 7), 12),
                Shl32(imm4_0, 7), And32(opcode, 127)>>)

encodeB(imm, rs2, rs1, funct3, opcode) ==
    LET imm13 == And32(imm, 8191)
        imm12 == And32(Sra32(imm13, 12), 1)
        imm10_5 == And32(Sra32(imm13, 5), 63)
        imm4_1 == And32(Sra32(imm13, 1), 15)
        imm11 == And32(Sra32(imm13, 11), 1)
    IN  OrAll(<<Shl32(imm12, 31), Shl32(imm10_5, 25), Shl32(And32(rs2, 31), 20),
                Shl32(And32(rs1, 31), 15), Shl32(And32(funct3, 7), 12),
                Shl32(imm4_1, 8), Shl32(imm11, 7), And32(opcode, 127)>>)

encodeU(imm, rd, opcode) ==
    OrAll(<<Shl32(And32(imm, W(15, 65535)), 12), Shl32(And32(rd, 31), 7),
            And32(opcode, 127)>>)

encodeJ(imm, rd, opcode) ==
    LET imm21 == And32(imm, W(31, 65535))
        imm20 == And32(Sra32(imm21, 20), 1)
        imm10_1 == And32(Sra32(imm21, 1), 1023)
        imm11 == And32(Sra32(imm21, 11), 1)
        imm19_12 == And32(Sra32(imm21, 12), 255)
    IN  OrAll(<<Shl32(imm20, 31), Shl32(imm19_12, 12), Shl32(imm11, 20),
                Shl32(imm10_1, 21), Shl32(And32(rd, 31), 7), And32(opcode, 127)>>)

----------------------------------------------------------------------------
(* utils.js: assembleProgram.  A line of assembly text is held after trim()
   as a record [k, mn, p]:
     k = "blank"    empty after trim
     k = "comment"  starts with # or // (and does not end with a colon)
     k = "label"    ends with a colon; mn is the text before the colon
     k = "ins"      anything else; mn is the first word and p the operand
                    words left by the split on commas, parentheses and spaces
   An operand word is a record [t, n, s]: "reg" is the text x<n>, "imm" a
   decimal or 0x numeral of value n, "sym" any other word s. *)

Reg(n) == [t |-> "reg", n |-> n, s |-> ""]
Imm(v) == [t |-> "imm", n |-> v, s |-> ""]
Sym(name) == [t |-> "sym", n |-> 0, s |-> name]
\* p[j] of a line with fewer words: undefined
NoTok == [t |-> "none", n |-> 0, s |-> ""]

Ins(mn, p) == [k |-> "ins", mn |-> mn, p |-> p]
LabelLine(name) == [k |-> "label", mn |-> name, p |-> << >>]
CommentLine == [k |-> "comment", mn |-> "", p |-> << >>]
BlankLine == [k |-> "blank", mn |-> "", p |-> << >>]

Tok(p, j) == IF j <= Len(p) THEN p[j] ELSE NoTok

\* /^x([0-9]|[12][0-9]|3[01])$/
isRegister(t) == t.t = "reg" /\ t.n \in 0 .. 31

\* /^-?\d+$/ or /^0x[0-9a-fA-F]+$/
isImmediate(t) == t.t = "imm"

\* parseInt(x.replace("x", ""))
reg(t) == t.n

\* parseInt(p[j]) of an immediate word
immOf(t) == t.n

\* the label table `labels = {}`: labels[name] = pc and the own entries
Bind(labels, name, pc) ==
    {l \in labels : l.name # name} \cup {[name |-> name, pc |-> pc]}
Own(labels, t) == t.t = "sym" /\ \E l \in labels : l.name = t.s

\* names every object literal inherits from Object.prototype: the `in`
\* operator finds them in a table that holds no such label
InheritedNames ==
    {"constructor", "hasOwnProperty", "isPrototypeOf", "propertyIsEnumerable",
     "toLocaleString", "toString", "valueOf"}

\* `label in labels`
Bound(labels, t) ==
    t.t = "sym" /\ (Own(labels, t) \/ t.s \in InheritedNames)

\* labels[label] of an own entry
AddrOf(labels, t) == (CHOOSE l \in labels : l.name = t.s).pc

\* targetAddr - pc as the shifts of B read it: an inherited entry is a
\* function, the difference NaN, and NaN >> n is 0
BranchOffset(labels, t, pc) ==
    IF Own(labels, t) THEN AddrOf(labels, t) - pc ELSE 0

\* a first pass that never advances the program counter
Pass1AdvanceNever(line, pc) == pc

\* pass 1, the program counter after a line: only blank lines and label
\* lines leave it alone
Pass1Advance(line, pc) ==
    IF line.k \in {"blank", "label"} THEN pc ELSE pc + 4

RECURSIVE Pass1(_, _, _, _, _)
\* pass 1 from line i on; at[j] is the program counter held on reaching
\* line j
Pass1(lines, i, labels, pc, at) ==
    IF i > Len(lines) THEN [labels |-> labels, pc |-> pc, at |-> at]
    ELSE Pass1(lines, i + 1,
               IF lines[i].k = "label" THEN Bind(labels, lines[i].mn, pc) ELSE labels,
               Pass1Advance(lines[i], pc),
               Append(at, pc))

RMnemonics == {"add", "sub", "and", "or", "xor", "sll", "srl", "sra"}
IMnemonics == {"addi", "andi", "ori", "xori", "slti", "slli", "srli", "srai"}
BMnemonics == {"beq", "bne", "blt", "bge", "bltu", "bgeu"}

\* functMap of the R-type block: <<funct7, funct3>>
RFunct(mn) ==
    CASE mn = "add" -> <<0, 0>>
      [] mn = "sub" -> <<32, 0>>
      [] mn = "and" -> <<0, 7>>
      [] mn = "or" -> <<0, 6>>
      [] mn = "xor" -> <<0, 4>>
      [] mn = "sll" -> <<0, 1>>
      [] mn = "srl" -> <<0, 5>>
      [] mn = "sra" -> <<32, 5>>

\* functMap of the I-type block
IFunct(mn) ==
    CASE mn = "addi" -> 0
      [] mn = "andi" -> 7
      [] mn = "ori" -> 6
      [] mn = "xori" -> 4
      [] mn = "slti" -> 2
      [] mn = "slli" -> 1
      [] mn = "srli" -> 5
      [] mn = "srai" -> 5

\* funct3Map of the branch block
BFunct3(mn) ==
    CASE mn = "beq" -> 0
      [] mn = "bne" -> 1
      [] mn = "blt" -> 4
      [] mn = "bge" -> 5
      [] mn = "bltu" -> 6
      [] mn = "bgeu" -> 7

Emit(w) == [r |-> "word", word |-> w]
Threw == [r |-> "threw", word |-> 0]
Warned == [r |-> "warn", word |-> 0]

\* pass 2, the body of the loop for one instruction line: the word pushed,
\* a throw, or the warning of the final else
assembleInstr(line, labels, pc) ==
    LET op == line.mn
        p1 == Tok(line.p, 1)
        p2 == Tok(line.p, 2)
        p3 == Tok(line.p, 3)
    IN  CASE op \in RMnemonics ->
                IF ~(isRegister(p1) /\ isRegister(p2) /\ isRegister(p3)) THEN Threw
                ELSE Emit(R(RFunct(op)[1], RFunct(op)[2], 51, reg(p1), reg(p2), reg(p3)))
          [] op \in IMnemonics ->
                IF ~(isRegister(p1) /\ isRegister(p2)) \/ ~isImmediate(p3) THEN Threw
                ELSE LET instr == I(IFunct(op), 19, reg(p1), reg(p2), immOf(p3)) IN
                     Emit(IF op = "srai" THEN Or32(instr, Shl32(32, 25)) ELSE instr)
          [] op = "lw" ->
                IF ~(isRegister(p1) /\ isRegister(p3)) \/ ~isImmediate(p2) THEN Threw
                ELSE Emit(I(2, 3, reg(p1), reg(p3), immOf(p2)))
          [] op = "sw" ->
                IF ~(isRegister(p1) /\ isRegister(p3)) \/ ~isImmediate(p2) THEN Threw
                ELSE Emit(S(2, 35, reg(p3), reg(p1), immOf(p2)))
          [] op \in BMnemonics ->
                IF ~isRegister(p1) \/ ~isRegister(p2) THEN Threw
                ELSE IF ~Bound(labels, p3) THEN Threw
                ELSE Emit(B(BFunct3(op), 99, reg(p1), reg(p2), BranchOffset(labels, p3, pc)))
          [] OTHER -> Warned

\* a push that also happens for the line the warning is about
Pass2OutAlways(out, r) == Append(out, r.word)

\* out after an instruction line that did not throw
Pass2Out(out, r) == IF r.r = "word" THEN Append(out, r.word) ELSE out

\* the lines pass 2 skips without touching the program counter
Pass2Skips(line) == line.k \in {"blank", "comment", "label"}

RECURSIVE Pass2(_, _, _, _, _, _, _, _)
\* pass 2 from line i on.  History kept for the claims: at[j] and outAt[j]
\* are the program counter and the number of words pushed on reaching line
\* j, warned the lines that drew the warning
Pass2(lines, i, labels, pc, out, at, outAt, warned) ==
    IF i > Len(lines)
    THEN [threw |-> FALSE, pc |-> pc, out |-> out, at |-> at, outAt |-> outAt,
          warned |-> warned]
    ELSE IF Pass2Skips(lines[i])
    THEN Pass2(lines, i + 1, labels, pc, out, Append(at, pc),
               Append(outAt, Len(out)), warned)
    ELSE
    LET r == assembleInstr(lines[i], labels, pc) IN
    IF r.r = "threw"
    THEN [threw |-> TRUE, pc |-> pc, out |-> out, at |-> Append(at, pc),
          outAt |-> Append(outAt, Len(out)), warned |-> warned]
    ELSE Pass2(lines, i + 1, labels, pc + 4,
               Pass2Out(out, r),
               Append(at, pc), Append(outAt, Len(out)),
               IF r.r = "warn" THEN warned \cup {i} ELSE warned)

\* assembleProgram(text): whether it threw, the words returned, and the
\* history of both passes
assembleProgram(lines) ==
    LET p1 == Pass1(lines, 1, {}, 0, << >>)
        p2 == Pass2(lines, 1, p1.labels, 0, << >>, << >>, << >>, {})
    IN  [lines |-> lines, threw |-> p2.threw, out |-> p2.out,
         labels |-> p1.labels, at1 |-> p1.at, at2 |-> p2.at,
         outAt |-> p2.outAt, warned |-> p2.warned, pc |-> p2.pc]

----------------------------------------------------------------------------
(* main.js: handleLoad with a text of assembly *)

Digits16(h) == <<h \div 4096, (h \div 256) % 16, (h \div 16) % 16, h % 16>>

RECURSIVE StripZeros(_)
StripZeros(ds) ==
    IF Len(ds) > 1 /\ Head(ds) = 0 THEN StripZeros(Tail(ds)) ELSE ds

\* a conversion that writes the low half of the word only
toString16LowHalf(x) == StripZeros(Digits16(Lo(x)))

\* x.toString(16) of an unsigned 32-bit x: no leading zeros
toString16(x) == StripZeros(Digits16(Hi(x)) \o Digits16(Lo(x)))

RECURSIVE padStart(_, _)
\* ds.padStart(n, "0")
padStart(ds, n) == IF Len(ds) >= n THEN ds ELSE padStart(<<0>> \o ds, n)

\* hexArray.map(x => x.toString(16).padStart(8, "0")).join("\n")
ProgramText(hexArray) ==
    [j \in 1 .. Len(hexArray) |-> HexLine(padStart(toString16(hexArray[j]), 8))]

RECURSIVE TrimStart(_)
TrimStart(lines) ==
    IF lines # << >> /\ Head(lines).k = "blank" THEN TrimStart(Tail(lines)) ELSE lines

RECURSIVE TrimEnd(_)
TrimEnd(lines) ==
    IF lines # << >> /\ lines[Len(lines)].k = "blank"
    THEN TrimEnd(SubSeq(lines, 1, Len(lines) - 1)) ELSE lines

\* value.trim() of the text area, line by line
TrimText(lines) == TrimEnd(TrimStart(lines))

----------------------------------------------------------------------------
(* cpu.step() called directly, as the earlier main.js did on every Step
   click; the action of the specifications below, which bound the run by
   MaxCycle alone *)

StepOnce ==
    /\ tasks = << >>
    /\ step(state).state.cycle <= MaxCycle
    /\ LET r == step(state) IN
       /\ state' = r.state
       /\ ret' = r.ret
    /\ lastOp' = Op("step", 0)
    /\ quiet' = FALSE
    /\ UNCHANGED <<isStepInProgress, isRunning, tasks, events, bench>>

----------------------------------------------------------------------------
(* AsmSpec: a text of assembly is typed, loaded through handleLoad and
   stepped *)

MaxLines == 3      \* lines of the text typed

\* the lines a text is made of
AsmLines ==
    { Ins("addi", <<Reg(1), Reg(0), Imm(5)>>),
      Ins("addi", <<Reg(2), Reg(0), Imm(3)>>),
      Ins("add", <<Reg(3), Reg(1), Reg(2)>>),
      Ins("addi", <<Reg(0), Reg(1), Imm(5)>>),
      Ins("srai", <<Reg(3), Reg(3), Imm(1)>>),
      Ins("beq", <<Reg(0), Reg(0), Sym("loop")>>),
      Ins("beq", <<Reg(0), Reg(0), Sym("nowhere")>>),
      Ins("lui", <<Reg(1), Imm(1)>>),
      LabelLine("loop"),
      CommentLine,
      BlankLine }

AsmSources == UNION {[1 .. n -> AsmLines] : n \in 0 .. MaxLines}

AsmInit ==
    /\ state = NewProcessor
    /\ isStepInProgress = FALSE
    /\ isRunning = FALSE
    /\ tasks = << >>
    /\ lastOp = Op("init", 0)
    /\ ret = Null
    /\ quiet = FALSE
    /\ events = 0
    /\ source \in AsmSources
    /\ asm = Null
    /\ codec = Null
    /\ probe = Null
    /\ notes = << >>

\* handleLoad, the text not starting with a line of hexadecimal digits:
\* nothing for an empty text; assembleProgram, whose throw leaves the
\* handler; else cpu.loadProgram of the words written in hexadecimal
AsmHandleLoad ==
    LET code == TrimText(source) IN
    /\ UNCHANGED <<isStepInProgress, isRunning, tasks, events, source, codec,
                   probe, notes>>
    /\ ret' = Null
    /\ IF code = << >>
       THEN /\ lastOp' = Op("loadIgnored", 0)
            /\ UNCHANGED <<state, asm, quiet>>
       ELSE /\ asm' = Some(assembleProgram(code))
            /\ IF asm'[1].threw
               THEN /\ lastOp' = Op("loadThrew", 0)
                    /\ quiet' = FALSE
                    /\ UNCHANGED state
               ELSE /\ state' = loadProgram(state, ProgramText(asm'[1].out)).state
                    /\ lastOp' = Op("load", 0)
                    /\ quiet' = TRUE

AsmNext ==
    \/ AsmHandleLoad
    \/ StepOnce

AsmSpec == AsmInit /\ [][AsmNext]_vars

----------------------------------------------------------------------------
(* CoreSpec: step() on a core holding two words typed in hexadecimal, with
   registers x1 and x2 edited *)

\* the words: every funct3 of opcode 0x63 (offset 8, registers x1 and x2),
\* a backward beq, stores and loads on the same address, an ALU word of
\* each class, and the words assembleLine gives for lui x3,1 and jal x1,8
CoreWords ==
    {B(f3, 99, 1, 2, 8) : f3 \in 0 .. 7}
    \cup {B(0, 99, 1, 2, -4)}
    \cup {S(2, 35, 1, 2, 4), S(2, 35, 1, 2, -4), I(2, 3, 3, 1, 4)}
    \cup {R(0, 0, 51, 3, 1, 2), I(0, 19, 3, 1, -1)}
    \cup {encodeU(1, 3, 55), encodeJ(8, 1, 111)}

\* the values typed into x1 and x2
CoreVals == {0, 1, -1, 128}

CoreInit ==
    /\ \E w1 \in CoreWords, w2 \in CoreWords, v1 \in CoreVals, v2 \in CoreVals :
          state = [loadProgram(NewProcessor, ProgramText(<<w1, w2>>)).state
                      EXCEPT !.regs[1] = v1, !.regs[2] = v2]
    /\ isStepInProgress = FALSE
    /\ isRunning = FALSE
    /\ tasks = << >>
    /\ lastOp = Op("init", 0)
    /\ ret = Null
    /\ quiet = FALSE
    /\ events = 0
    /\ source = << >>
    /\ asm = Null
    /\ codec = Null
    /\ probe = Null
    /\ notes = << >>

CoreNext == StepOnce

CoreSpec == CoreInit /\ [][CoreNext]_vars

----------------------------------------------------------------------------
(* CodecSpec: a field tuple is encoded by an encoder of utils.js or of
   cpu.js and the word decoded by RISCVProcessor.decode *)

CodecRegs == {0, 1, 10, 21, 31}
CodecFunct3 == 0 .. 7
CodecFunct7 == {0, 32, 85, 127}
CodecImm12 == {-2048, -1366, -1, 0, 32, 1365, 2047}
CodecImm13 == {-4096, -2732, -2, 0, 32, 2730, 4094}

Fields(enc, fmt, opcode, funct7, funct3, rd, rs1, rs2, imm) ==
    [enc |-> enc, fmt |-> fmt, opcode |-> opcode, funct7 |-> funct7,
     funct3 |-> funct3, rd |-> rd, rs1 |-> rs1, rs2 |-> rs2, imm |-> imm,
     word |-> Null, decoded |-> Null]

\* <<rd, rs1, rs2>>: the sampled indices in every combination, and every
\* index 0..31 in every place
CodecRegTriples ==
    {<<rd, rs1, rs2>> : rd \in CodecRegs, rs1 \in CodecRegs, rs2 \in CodecRegs}
    \cup {<<r, (r + 11) % NumRegs, (r + 22) % NumRegs>> : r \in RegIdx}

CodecInputs ==
    {Fields(enc, "R", 51, f7, f3, t[1], t[2], t[3], 0) :
        enc \in {"utils", "cpu"}, f7 \in CodecFunct7, f3 \in {0, 5, 7},
        t \in CodecRegTriples}
    \cup {Fields(enc, "I", op, 0, f3, t[1], t[2], 0, imm) :
        enc \in {"utils", "cpu"}, op \in {19, 3}, f3 \in CodecFunct3,
        t \in CodecRegTriples, imm \in CodecImm12}
    \cup {Fields(enc, "S", 35, 0, f3, 0, t[2], t[3], imm) :
        enc \in {"utils", "cpu"}, f3 \in CodecFunct3,
        t \in CodecRegTriples, imm \in CodecImm12}
    \cup {Fields(enc, "B", 99, 0, f3, 0, t[2], t[3], imm) :
        enc \in {"utils", "cpu"}, f3 \in CodecFunct3,
        t \in CodecRegTriples, imm \in CodecImm13}

\* the encoder call for a field tuple
EncodeFields(c) ==
    CASE c.enc = "utils" /\ c.fmt = "R" -> R(c.funct7, c.funct3, c.opcode, c.rd, c.rs1, c.rs2)
      [] c.enc = "utils" /\ c.fmt = "I" -> I(c.funct3, c.opcode, c.rd, c.rs1, c.imm)
      [] c.enc = "utils" /\ c.fmt = "S" -> S(c.funct3, c.opcode, c.rs1, c.rs2, c.imm)
      [] c.enc = "utils" /\ c.fmt = "B" -> B(c.funct3, c.opcode, c.rs1, c.rs2, c.imm)
      [] c.enc = "cpu" /\ c.fmt = "R" -> encodeR(c.funct7, c.rs2, c.rs1, c.funct3, c.rd, c.opcode)
      [] c.enc = "cpu" /\ c.fmt = "I" -> encodeI(c.imm, c.rs1, c.funct3, c.rd, c.opcode)
      [] c.enc = "cpu" /\ c.fmt = "S" -> encodeS(c.imm, c.rs2, c.rs1, c.funct3, c.opcode)
      [] c.enc = "cpu" /\ c.fmt = "B" -> encodeB(c.imm, c.rs2, c.rs1, c.funct3, c.opcode)

CodecInit ==
    /\ state = NewProcessor
    /\ isStepInProgress = FALSE
    /\ isRunning = FALSE
    /\ tasks = << >>
    /\ lastOp = Op("init", 0)
    /\ ret = Null
    /\ quiet = FALSE
    /\ events = 0
    /\ source = << >>
    /\ asm = Null
    /\ codec \in CodecInputs
    /\ probe = Null
    /\ notes = << >>

Encode ==
    /\ codec.word = Null
    /\ codec' = [codec EXCEPT !.word = Some(EncodeFields(codec))]
    /\ lastOp' = Op("encode", 0)
    /\ UNCHANGED <<state, isStepInProgress, isRunning, tasks, ret, quiet, events,
                   source, asm, probe, notes>>

Decode ==
    /\ codec.word # Null /\ codec.decoded = Null
    /\ codec' = [codec EXCEPT !.decoded = Some(decode(codec.word[1]))]
    /\ lastOp' = Op("decode", 0)
    /\ UNCHANGED <<state, isStepInProgress, isRunning, tasks, ret, quiet, events,
                   source, asm, probe, notes>>

CodecNext ==
    \/ Encode
    \/ Decode

CodecSpec == CodecInit /\ [][CodecNext]_vars

----------------------------------------------------------------------------
(* Properties of step() on single words (CoreSpec) *)

\* the word step() fetches in state s, decoded
Fetched(s) == decode(s.instrMem[Srl32(s.pc, 2)])

\* the step call of the last step executed an instruction
Executed == lastOp.name = "step" /\ ret # Null

\* the condition of the branch funct3 names, on the values of rs1 and rs2
BranchCondition(funct3, a, b) ==
    CASE funct3 = 0 -> a = b
      [] funct3 = 1 -> a # b
      [] funct3 = 4 -> a < b
      [] funct3 = 5 -> a >= b
      [] funct3 = 6 -> LtU(a, b)
      [] funct3 = 7 -> ~LtU(a, b)

StoreWritesOneCell ==
    [][lastOp'.name = "step" =>
          LET d == Fetched(state)
              index == And32(Sra32(Add32(state.regs[d.rs1], d.imm), 2), 31)
          IN  IF ret' # Null /\ d.opcode = 35
              THEN /\ state'.dataMem = [state.dataMem EXCEPT ![index] = state.regs[d.rs2]]
                   /\ state'.regs = state.regs
              ELSE state'.dataMem = state.dataMem]_vars

\* C12 witness: sw x2,4(x1) has just executed with x1 = 128: byte address
\* 132 went to cell 1, as address 4 does, and no other cell changed.
StoreWrappedIntoCell ==
    /\ Executed
    /\ ret[1].decoded.opcode = 35
    /\ ret[1].mem_addr = Some(132) /\ ret[1].rs2_val = -1
    /\ state.dataMem = [SeedDataMem EXCEPT ![1] = -1]

\* C13: when sw rs2,imm(rs1) and then lw rd,imm(rs1) with rd # 0 execute in
\* consecutive steps, rd and the addressed cell both hold afterwards the
\* value rs2 had at the store.
StoreThenLoadRoundTrip ==
    [][(/\ Executed /\ ret[1].decoded.opcode = 35
        /\ lastOp'.name = "step" /\ ret' # Null /\ ret'[1].decoded.opcode = 3
        /\ ret'[1].decoded.rs1 = ret[1].decoded.rs1
        /\ ret'[1].decoded.imm = ret[1].decoded.imm
        /\ ret'[1].decoded.rd # 0) =>
          LET index == And32(Sra32(Add32(ret[1].rs1_val, ret[1].decoded.imm), 2), 31)
          IN  /\ state'.regs[ret'[1].decoded.rd] = ret[1].rs2_val
              /\ state'.dataMem[index] = ret[1].rs2_val]_vars

\* C13 witness: sw x2,4(x1) then lw x3,4(x1) have executed with x1 = 0 and
\* x2 = 0xFFFFFFFF: x3 and cell 1 hold 0xFFFFFFFF.
LoadedWhatWasStored ==
    /\ Executed
    /\ state.instrMem[0] = S(2, 35, 1, 2, 4)
    /\ ret[1].instr = I(2, 3, 3, 1, 4) /\ ret[1].pc_before = 4
    /\ state.regs[1] = 0 /\ state.regs[2] = -1
    /\ state.regs[3] = -1 /\ state.dataMem[1] = -1

\* C16: an executed word whose opcode is none of 0x33, 0x13, 0x03, 0x23,
\* 0x63 has all-zero control signals, changes no register and no
\* data-memory cell, and leaves pc + 4 in pc.
UnknownOpcodeIsNoOp ==
    [][(lastOp'.name = "step" /\ ret' # Null
        /\ Fetched(state).opcode \notin {51, 19, 3, 35, 99}) =>
          /\ ret'[1].ctrl = [alu_src |-> 0, alu2reg |-> 0, wem |-> 0,
                             branch |-> 0, branch_ne |-> 0, alu_op |-> 0]
          /\ state'.regs = state.regs
          /\ state'.dataMem = state.dataMem
          /\ state'.pc = Add32(state.pc, 4)]_vars

----------------------------------------------------------------------------
(* Properties of assembled programs (AsmSpec) *)

\* the result RV32I defines for an ALU word (opcode 0x33 or 0x13) on the
\* value a of rs1 and the second operand b
AluResult(d, a, b) ==
    CASE d.funct3 = 0 -> (IF d.opcode = 51 /\ d.funct7 = 32 THEN Sub32(a, b)
                          ELSE Add32(a, b))
      [] d.funct3 = 1 -> Shl32(a, Bits(b, 0, 5))
      [] d.funct3 = 2 -> (IF a < b THEN 1 ELSE 0)
      [] d.funct3 = 3 -> (IF LtU(a, b) THEN 1 ELSE 0)
      [] d.funct3 = 4 -> Xor32(a, b)
      [] d.funct3 = 5 -> (IF d.funct7 = 32 THEN Sra32(a, Bits(b, 0, 5))
                          ELSE Srl32(a, Bits(b, 0, 5)))
      [] d.funct3 = 6 -> Or32(a, b)
      [] d.funct3 = 7 -> And32(a, b)

\* none of the first k words of instruction memory is a branch
NoBranchBefore(s, k) == \A i \in 0 .. (k - 1) : Bits(s.instrMem[i], 0, 7) # 99

\* addi x1,x0,5 ; addi x2,x0,3 ; add x3,x1,x2
SumSource ==
    << Ins("addi", <<Reg(1), Reg(0), Imm(5)>>),
       Ins("addi", <<Reg(2), Reg(0), Imm(3)>>),
       Ins("add", <<Reg(3), Reg(1), Reg(2)>> ) >>

\* what C14 says of the step just executed, the j-th since the load, when
\* no branch was among the j; x0Too: also of an ALU word naming x0
StraightLineStep(x0Too) ==
    (lastOp'.name = "step" /\ ret' # Null /\ NoBranchBefore(state', state'.cycle)) =>
        LET d == Fetched(state)
            a == state.regs[d.rs1]
            b == IF d.opcode = 51 THEN state.regs[d.rs2] ELSE d.imm
        IN  /\ state'.pc = 4 * state'.cycle
            /\ ~state'.halted
            /\ (d.opcode \in {51, 19} /\ (x0Too \/ d.rd # 0)) =>
                    state'.regs[d.rd] = AluResult(d, a, b)
            /\ (d.opcode \in {51, 19} /\ d.rd = 0) => state'.regs[0] = 0
            /\ (source = SumSource /\ state'.cycle = 3) =>
                    state'.regs[3] = 8 /\ state'.pc = 12

\* C14: after a load, when j non-branch instructions have executed from
\* reset, pc = 4*j and halted = false, and each ALU instruction has left in
\* rd the 32-bit result of its operation; addi x1,x0,5; addi x2,x0,3;
\* add x3,x1,x2 gives x3 = 8 and pc = 12 after 3 steps.
StraightLineRunComputes == [][StraightLineStep(TRUE)]_vars

\* C14 amended: the same, the ALU result being in rd when rd is not x0; an
\* ALU instruction naming x0 leaves x0 = 0.
StraightLineRunComputesUnlessX0 == [][StraightLineStep(FALSE)]_vars

\* C14 witness: the three lines of the claim have been loaded and stepped
\* three times.
SumProgramRan ==
    /\ source = SumSource /\ Executed
    /\ state.cycle = 3 /\ state.regs[3] = 8 /\ state.pc = 12 /\ ~state.halted

\* beq x0,x0,loop ; loop:
SelfLoopSource ==
    << Ins("beq", <<Reg(0), Reg(0), Sym("loop")>>), LabelLine("loop") >>

\* C15: once `beq x0,x0,loop` followed by the line `loop:` is loaded, one
\* step leaves pc at the address of the branch (0, encoded offset 0), and
\* halted = false after that step and after every later one.
SelfBranchLoopsForever ==
    (source = SelfLoopSource /\ asm # Null /\ lastOp.name = "step") =>
        state.pc = 0 /\ ~state.halted

\* C15 amended: the label is bound to the address after the branch, the
\* encoded offset is 4; the first step leaves pc = 4 and halted = false, the
\* next one fetches the zero word at 4 and halts.
BranchToNextLineFallsThrough ==
    (source = SelfLoopSource /\ asm # Null /\ lastOp.name = "step") =>
        /\ Len(asm[1].out) = 1 /\ decode(asm[1].out[1]).imm = 4
        /\ state.pc = 4 /\ state.cycle = 1
        /\ state.halted <=> ret = Null

\* C15 witness: the second step after the load has halted the core at 4.
SelfBranchHalted ==
    /\ source = SelfLoopSource /\ asm # Null /\ lastOp.name = "step"
    /\ state.halted /\ state.pc = 4

\* the line that binds label name (the last one, whose binding pass 1 keeps)
LabelLineOf(lines, name) ==
    CHOOSE j \in 1 .. Len(lines) :
        /\ lines[j] = LabelLine(name)
        /\ \A m \in (j + 1) .. Len(lines) : lines[m] # LabelLine(name)

\* C18: in every assembled text, the offset decoded from the word of a
\* branch is the address of its label (the program counter pass 2 holds at
\* the label's line) minus the address of the branch (the program counter
\* pass 2 holds at the branch).
BranchOffsetIsLabelMinusBranch ==
    (asm # Null /\ ~asm[1].threw) =>
        LET a == asm[1] IN
        \A i \in 1 .. Len(a.lines) :
            (a.lines[i].k = "ins" /\ a.lines[i].mn \in BMnemonics) =>
                LET j == LabelLineOf(a.lines, a.lines[i].p[3].s) IN
                decode(a.out[a.outAt[i] + 1]).imm = a.at2[j] - a.at2[i]

\* C19: at every line pass 2 reaches, it holds the program counter pass 1
\* held at that line.
PassesTrackSamePc ==
    asm # Null =>
        \A i \in 1 .. Len(asm[1].at2) : asm[1].at2[i] = asm[1].at1[i]

KnownMnemonics == RMnemonics \cup IMnemonics \cup {"lw", "sw"} \cup BMnemonics

\* C20: a line with an unrecognized mnemonic does not throw: pass 2 goes on
\* with no word pushed and the program counter advanced by 4; a text that
\* assembles gives as many words as it has instruction lines, less the
\* unrecognized ones.
UnknownMnemonicOnlyWarns ==
    asm # Null =>
        LET a == asm[1]
            reached == Len(a.at2)
            instrs == {i \in 1 .. Len(a.lines) : a.lines[i].k = "ins"}
            unknown == {i \in instrs : a.lines[i].mn \notin KnownMnemonics}
            pcAfter(i) == IF i < reached THEN a.at2[i + 1] ELSE a.pc
            outAfter(i) == IF i < reached THEN a.outAt[i + 1] ELSE Len(a.out)
        IN  /\ \A i \in unknown : i <= reached =>
                  /\ ~(a.threw /\ i = reached)
                  /\ i \in a.warned
                  /\ pcAfter(i) = a.at2[i] + 4
                  /\ outAfter(i) = a.outAt[i]
            /\ ~a.threw => Len(a.out) = Cardinality(instrs) - Cardinality(unknown)

\* C20 witness: addi x1,x0,5 ; lui x1,1 ; add x3,x1,x2 has been loaded: two
\* words for three instruction lines, the add at address 4.
UnknownLineLeftOut ==
    /\ asm # Null /\ lastOp.name = "load"
    /\ source = << Ins("addi", <<Reg(1), Reg(0), Imm(5)>>),
                   Ins("lui", <<Reg(1), Imm(1)>>),
                   Ins("add", <<Reg(3), Reg(1), Reg(2)>>) >>
    /\ asm[1].warned = {2} /\ Len(asm[1].out) = 2
    /\ state.instrMem[1] = R(0, 0, 51, 3, 1, 2) /\ state.instrMem[2] = 0

----------------------------------------------------------------------------
(* Properties of the encoders and decode (CodecSpec) *)

\* C17: decoding the word an R, I, S or B encoder (of utils.js or of
\* cpu.js) gives for a field tuple recovers the opcode, funct3 and the
\* register fields of the format, funct7 for R, and the signed immediate
\* for I, S (12 bits) and B (13 bits, even).
DecodeRecoversFields ==
    codec.decoded # Null =>
        LET d == codec.decoded[1] IN
        /\ d.opcode = codec.opcode
        /\ d.funct3 = codec.funct3
        /\ d.rs1 = codec.rs1
        /\ codec.fmt \in {"R", "I"} => d.rd = codec.rd
        /\ codec.fmt \in {"R", "S", "B"} => d.rs2 = codec.rs2
        /\ codec.fmt = "R" => d.funct7 = codec.funct7
        /\ codec.fmt \in {"I", "S", "B"} => d.imm = codec.imm

\* C17 witness: the word B of utils.js gives for funct3 = 5, rs1 = 31,
\* rs2 = 21 and the offset -2732 has been decoded.
NegativeBranchOffsetDecoded ==
    /\ codec.decoded # Null
    /\ codec.enc = "utils" /\ codec.fmt = "B" /\ codec.funct3 = 5
    /\ codec.rs1 = 31 /\ codec.rs2 = 21 /\ codec.imm = -2732
    /\ codec.decoded[1].imm = -2732 /\ codec.decoded[1].immType = "B"

----------------------------------------------------------------------------
(* OperandSpec: texts whose lines carry well-formed and malformed operands,
   loaded through handleLoad and stepped *)

\* the lines a text is made of
OperandLines ==
    { Ins("add", <<Reg(1), Reg(2)>>),                      \* add x1,x2
      Ins("add", <<Reg(3), Reg(1), Reg(32)>>),             \* add x3,x1,x32
      Ins("addi", <<Reg(1), Reg(0), Sym("five")>>),        \* addi x1,x0,five
      Ins("addi", <<Reg(1), Reg(0), Imm(-1)>>),            \* addi x1,x0,-1
      Ins("lw", <<Reg(2), Reg(0)>>),                       \* lw x2,x0
      Ins("sw", <<Reg(1), Imm(4), Reg(0)>>),               \* sw x1,4(x0)
      Ins("beq", <<Reg(1), Reg(2), Sym("nosuchlabel")>>),  \* beq x1,x2,nosuchlabel
      Ins("beq", <<Reg(0), Reg(0), Sym("toString")>>),     \* beq x0,x0,toString
      Ins("beq", <<Reg(0), Reg(0), Sym("loop")>>),         \* beq x0,x0,loop
      Ins("bne", <<Reg(1), Sym("loop")>>),                 \* bne x1,loop
      LabelLine("loop") }

OperandSources == UNION {[1 .. n -> OperandLines] : n \in 0 .. MaxLines}

OperandInit ==
    /\ state = NewProcessor
    /\ isStepInProgress = FALSE
    /\ isRunning = FALSE
    /\ tasks = << >>
    /\ lastOp = Op("init", 0)
    /\ ret = Null
    /\ quiet = FALSE
    /\ events = 0
    /\ source \in OperandSources
    /\ asm = Null
    /\ codec = Null
    /\ probe = Null
    /\ notes = << >>

OperandSpec == OperandInit /\ [][AsmNext]_vars

----------------------------------------------------------------------------
(* Properties of the assembler's operand checks (OperandSpec) *)

\* label name is defined by a label line of the text
Defined(lines, name) == \E j \in 1 .. Len(lines) : lines[j] = LabelLine(name)

\* the operand grammar: xN with N in 0..31, a numeral, a defined label
IsReg(t) == t.t = "reg" /\ t.n >= 0 /\ t.n <= 31
IsNumeral(t) == t.t = "imm"
IsLabelOf(lines, t) == t.t = "sym" /\ Defined(lines, t.s)

\* line i carries a recognized mnemonic with an operand that is missing or
\* not of the kind its place requires
Malformed(lines, i) ==
    LET l == lines[i]
        p1 == Tok(l.p, 1)
        p2 == Tok(l.p, 2)
        p3 == Tok(l.p, 3)
    IN  /\ l.k = "ins"
        /\ \/ l.mn \in RMnemonics /\ ~(IsReg(p1) /\ IsReg(p2) /\ IsReg(p3))
           \/ l.mn \in IMnemonics /\ ~(IsReg(p1) /\ IsReg(p2) /\ IsNumeral(p3))
           \/ l.mn \in {"lw", "sw"} /\ ~(IsReg(p1) /\ IsNumeral(p2) /\ IsReg(p3))
           \/ l.mn \in BMnemonics /\ ~(IsReg(p1) /\ IsReg(p2) /\ IsLabelOf(lines, p3))

\* C21: assembleProgram throws, returning no words, for every text in which
\* a line with a recognized mnemonic has a register operand missing or not
\* x0..x31, an immediate operand that is no numeral, or a branch target that
\* no label line of the text defines.
MalformedOperandAborts ==
    asm # Null =>
        ((\E i \in 1 .. Len(asm[1].lines) : Malformed(asm[1].lines, i)) => asm[1].threw)

\* C22: assembleProgram throws for every text in which two label lines
\* define the same name.
DuplicateLabelAborts ==
    asm # Null =>
        ((\E i, j \in 1 .. Len(asm[1].lines) :
             /\ i < j
             /\ asm[1].lines[i].k = "label"
             /\ asm[1].lines[j] = asm[1].lines[i]) => asm[1].threw)

\* C27: after handleLoad has assembled and loaded a text, instruction memory
\* holds the i-th word assembleProgram returned at index i, for every i
\* below the word count, and 0 in every other cell.
LoadInstallsAssembledWords ==
    (asm # Null /\ ~asm[1].threw) => state.instrMem = ImageOf(asm[1].out)

\* C27 witness: addi x1,x0,-1 ; sw x1,4(x0) has just been loaded: cell 0
\* holds 0xFFF00093 and cell 1 holds 0x00102223.
NegativeWordLoaded ==
    /\ lastOp.name = "load" /\ asm # Null
    /\ Len(asm[1].out) = 2
    /\ state.instrMem[0] = W(65520, 147)
    /\ state.instrMem[1] = W(16, 8739)
    /\ state.instrMem[2] = 0

----------------------------------------------------------------------------
(* UnitSpec: the ALU called on a pair of operands and an operation code,
   and a word taken through decode, controlUnit and the EXEC lines of step *)

\* operands given to the ALU: 0, 1, 0xFFFFFFFF, 5, 33 (a shift amount above
\* 31), 0x7FFFFFFF, 0x80000000, 0x12345678
AluVals == {0, 1, -1, 5, 33, W(32767, 65535), W(32768, 0), W(4660, 22136)}

\* operation codes: the fourteen the ALU defines and three it does not
AluOps == 0 .. 16

\* every opcode and funct3, funct7 at both ends, at 0x20 and next to it
UnitOpcodes == 0 .. 127
UnitFunct3 == 0 .. 7
UnitFunct7 == {0, 1, 32, 33, 64, 127}

\* the values of rs1 and rs2 a word is executed on
UnitRs1Vals == {5, -8}
UnitRs2Vals == {3}

Probe(unit, a, b, op, f3, f7, word) ==
    [unit |-> unit, a |-> a, b |-> b, op |-> op, f3 |-> f3, f7 |-> f7,
     word |-> word, decoded |-> Null, ctrl |-> Null, res |-> Null]

\* words with rd = x3, rs1 = x1, rs2 = x2
UnitInputs ==
    {Probe("alu", a, b, op, 0, 0, 0) : a \in AluVals, b \in AluVals, op \in AluOps}
    \cup {Probe("word", a, b, op, f3, f7, R(f7, f3, op, 3, 1, 2)) :
            a \in UnitRs1Vals, b \in UnitRs2Vals,
            op \in UnitOpcodes, f3 \in UnitFunct3, f7 \in UnitFunct7}

UnitInit ==
    /\ state = NewProcessor
    /\ isStepInProgress = FALSE
    /\ isRunning = FALSE
    /\ tasks = << >>
    /\ lastOp = Op("init", 0)
    /\ ret = Null
    /\ quiet = FALSE
    /\ events = 0
    /\ source = << >>
    /\ asm = Null
    /\ codec = Null
    /\ probe \in UnitInputs
    /\ notes = << >>

UnitFrame ==
    UNCHANGED <<state, isStepInProgress, isRunning, tasks, ret, quiet, events,
                source, asm, codec, notes>>

\* alu(a, b, alu_op)
Alu ==
    /\ probe.unit = "alu" /\ probe.res = Null
    /\ probe' = [probe EXCEPT !.res = Some(alu(probe.a, probe.b, probe.op))]
    /\ lastOp' = Op("alu", 0)
    /\ UnitFrame

\* decode(instr) and controlUnit(decoded)
Control ==
    /\ probe.unit = "word" /\ probe.ctrl = Null
    /\ probe' = [probe EXCEPT !.decoded = Some(decode(probe.word)),
                              !.ctrl = Some(controlUnit(decode(probe.word)))]
    /\ lastOp' = Op("control", 0)
    /\ UnitFrame

\* the EXEC lines of step: operand B chosen by alu_src, then the ALU
Exec ==
    /\ probe.unit = "word" /\ probe.ctrl # Null /\ probe.res = Null
    /\ LET ctrl == probe.ctrl[1]
           alu_b == IF ctrl.alu_src = 1 THEN probe.decoded[1].imm ELSE probe.b
       IN  probe' = [probe EXCEPT !.res = Some(alu(probe.a, alu_b, ctrl.alu_op))]
    /\ lastOp' = Op("exec", 0)
    /\ UnitFrame

UnitNext ==
    \/ Alu
    \/ Control
    \/ Exec

UnitSpec == UnitInit /\ [][UnitNext]_vars

----------------------------------------------------------------------------
(* Properties of the ALU and the control unit (UnitSpec) *)

\* 32-bit two's complement arithmetic written on signed integers
MinInt32 == W(32768, 0)
MaxInt32 == W(32767, 65535)

\* a + b modulo 2^32
Sum32(a, b) ==
    IF a > 0 /\ b > MaxInt32 - a THEN (a + MinInt32) + (b + MinInt32)
    ELSE IF a < 0 /\ b < MinInt32 - a THEN (a - MinInt32) + (b - MinInt32)
    ELSE a + b

RECURSIVE Doubled(_, _)
\* a * 2^s modulo 2^32
Doubled(a, s) == IF s = 0 THEN a ELSE Doubled(Sum32(a, a), s - 1)

\* the unsigned reading of a divided by 2^s, 0 <= s <= 31
ShiftedInZeros(a, s) ==
    IF s = 0 THEN a
    ELSE IF s = 31 THEN (IF a < 0 THEN 1 ELSE 0)
    ELSE IF a >= 0 THEN a \div (2 ^ s)
    ELSE ((a - MinInt32) \div (2 ^ s)) + 2 ^ (31 - s)

\* a divided by 2^s with the sign bit replicated
ShiftedInSign(a, s) ==
    IF a >= 0 THEN ShiftedInZeros(a, s)
    ELSE (-1) - ShiftedInZeros((-1) - a, s)

\* a below b, both read as unsigned
BelowUnsigned(a, b) == IF (a < 0) = (b < 0) THEN a < b ELSE b < 0

Flag(c) == IF c THEN 1 ELSE 0

\* C24: the ALU returns a 32-bit word for every operand pair and operation
\* code: ADD and SUB wrap modulo 2^32, the shifts use the low 5 bits of b,
\* SRA replicates the sign bit and SRL shifts in zeros, SLT compares signed
\* and SLTU unsigned, the comparisons return 0 or 1, and an operation code
\* outside 0x0..0xD returns 0.
AluResultsAreWords ==
    (probe # Null /\ probe.unit = "alu" /\ probe.res # Null) =>
        LET a == probe.a
            b == probe.b
            op == probe.op
            r == probe.res[1]
            s == b % 32
        IN  /\ r = W(Hi(r), Lo(r))
            /\ op = 0 => r = Sum32(a, b)
            /\ op = 1 => Sum32(r, b) = a
            /\ op = 2 => r = Doubled(a, s)
            /\ op = 6 => r = ShiftedInZeros(a, s)
            /\ op = 7 => r = ShiftedInSign(a, s)
            /\ op \in {3, 12} => r = Flag(a < b)
            /\ op \in {4, 13} => r = Flag(BelowUnsigned(a, b))
            /\ op \in {10, 11} => r = Flag(a = b)
            /\ op > 13 => r = 0

\* C24 witness: ADD(0x7FFFFFFF, 1) has returned 0x80000000.
AddWrapped ==
    /\ probe # Null /\ probe.unit = "alu" /\ probe.op = 0
    /\ probe.a = W(32767, 65535) /\ probe.b = 1
    /\ probe.res = Some(W(32768, 0))

\* C25: the alu_op the control unit gives for a word is one of the
\* operation codes 0x0..0xD the ALU defines.
AluOpIsDefined ==
    (probe # Null /\ probe.ctrl # Null) =>
        probe.ctrl[1].alu_op >= 0 /\ probe.ctrl[1].alu_op <= 13

\* C25 witness: a branch word with funct3 = 2, for which the control unit
\* has no case, has been given alu_op 0 and executed.
BranchWithoutCaseExecuted ==
    /\ probe # Null /\ probe.res # Null
    /\ probe.op = 99 /\ probe.f3 = 2 /\ probe.f7 = 127
    /\ probe.ctrl[1].alu_op = 0 /\ probe.ctrl[1].branch = 1

\* C28: for every funct3 and funct7, wem is 1 exactly for opcode 0x23,
\* alu2reg exactly for 0x03, branch exactly for 0x63, alu_src exactly for
\* 0x13, 0x03 and 0x23, and alu_op is ADD for 0x03 and 0x23.
ControlSignalsFollowOpcode ==
    (probe # Null /\ probe.ctrl # Null) =>
        LET c == probe.ctrl[1] IN
        /\ c.wem = Flag(probe.op = 35)
        /\ c.alu2reg = Flag(probe.op = 3)
        /\ c.branch = Flag(probe.op = 99)
        /\ c.alu_src = Flag(probe.op \in {19, 3, 35})
        /\ probe.op \in {3, 35} => c.alu_op = 0

\* C28 witness: a store word with funct3 = 7 and funct7 = 0x7F has been given
\* wem = 1, alu_src = 1 and ADD.
OddStoreDecoded ==
    /\ probe # Null /\ probe.ctrl # Null
    /\ probe.op = 35 /\ probe.f3 = 7 /\ probe.f7 = 127
    /\ probe.ctrl[1].wem = 1 /\ probe.ctrl[1].alu_src = 1
    /\ probe.ctrl[1].alu_op = 0

\* the immediate of an I-type word with funct7 in bits [31:25] and 2 in
\* bits [24:20]
ImmOf(f7) == f7 * 32 + 2 - (IF f7 >= 64 THEN 4096 ELSE 0)

\* C29: for a word of opcode 0x13 the bits [31:25] choose the operation
\* only when funct3 = 5 (SRA for 0x20, SRL otherwise); addi adds the
\* sign-extended immediate whatever those bits are.
ImmBitsSelectOnlyRightShift ==
    (probe # Null /\ probe.unit = "word" /\ probe.op = 19 /\ probe.ctrl # Null) =>
        /\ probe.ctrl[1].alu_op =
              CASE probe.f3 = 0 -> 0
                [] probe.f3 = 1 -> 2
                [] probe.f3 = 2 -> 3
                [] probe.f3 = 3 -> 4
                [] probe.f3 = 4 -> 5
                [] probe.f3 = 5 -> (IF probe.f7 = 32 THEN 7 ELSE 6)
                [] probe.f3 = 6 -> 8
                [] probe.f3 = 7 -> 9
        /\ (probe.res # Null /\ probe.f3 = 0) =>
              probe.res[1] = Sum32(probe.a, ImmOf(probe.f7))
        /\ (probe.res # Null /\ probe.f3 = 5) =>
              probe.res[1] = IF probe.f7 = 32 THEN ShiftedInSign(probe.a, 2)
                             ELSE ShiftedInZeros(probe.a, 2)

\* C29 witness: addi x3,x1,0x402 (bits [31:25] = 0x20) has executed on
\* x1 = 5 and given 1031.
AddiWithSubBitsAdded ==
    /\ probe # Null /\ probe.unit = "word"
    /\ probe.op = 19 /\ probe.f3 = 0 /\ probe.f7 = 32 /\ probe.a = 5
    /\ probe.res = Some(1031)

----------------------------------------------------------------------------
(* PhaseSpec: one stepWithStageDelay call at a time, or step(), on a core
   holding two words; the notifications of the call are logged as the
   callback receives them *)

\* what onStageUpdate(stage, snap) finds when it is called: the stage and
\* the core's pc, registers and data memory at that moment
Note(stage, s) ==
    [stage |-> stage, pc |-> s.pc, regs |-> s.regs, dataMem |-> s.dataMem]

\* a notification issued before the writes of its stretch of code
NotificationBeforeWrites(stage, before, after) == Note(stage, before)

\* the notification that ends a stretch of code: every stretch does its
\* writes first, then calls onStageUpdate, then awaits
Notification(stage, before, after) == Note(stage, after)

\* sw x1,4(x0) ; lw x3,4(x0) ; addi x3,x1,-1 ; beq x0,x0,-4 ; beq x0,x0,+1024
PhaseWords ==
    {S(2, 35, 0, 1, 4), I(2, 3, 3, 0, 4), I(0, 19, 3, 1, -1),
     B(0, 99, 0, 0, -4), B(0, 99, 0, 0, 1024)}

\* the values typed into x1
PhaseVals == {1, -1}

PhaseInit ==
    /\ \E w1 \in PhaseWords, w2 \in PhaseWords, v1 \in PhaseVals :
          state = [loadProgram(NewProcessor, ProgramText(<<w1, w2>>)).state
                      EXCEPT !.regs[1] = v1]
    /\ isStepInProgress = FALSE
    /\ isRunning = FALSE
    /\ tasks = << >>
    /\ lastOp = Op("init", 0)
    /\ ret = Null
    /\ quiet = FALSE
    /\ events = 0
    /\ source = << >>
    /\ asm = Null
    /\ codec = Null
    /\ probe = Null
    /\ notes = << >>

\* cpu.stepWithStageDelay(onStageUpdate, delay), up to its first await or,
\* when it returns at once, through its return
PhasedCall ==
    /\ tasks = << >>
    /\ LET r == SwsdCall(state) IN
       /\ state' = r.state
       /\ ret' = Null
       /\ IF r.done
          THEN /\ tasks' = << >>
               /\ notes' = << >>
               /\ lastOp' = Op("stepReturnedAtOnce", 0)
          ELSE /\ tasks' = << NewTask("step", "FETCH", r.loc, state) >>
               /\ notes' = << Notification("FETCH", state, r.state) >>
               /\ lastOp' = Op("stepCalled", 1)
    /\ quiet' = FALSE
    /\ UNCHANGED <<isStepInProgress, isRunning, events, source, asm, codec, probe>>

\* the timer resumes the call: the code up to the next await, or the return
PhasedResume ==
    /\ tasks # << >>
    /\ SwsdResume(state, tasks[1].loc, tasks[1].at).state.cycle <= MaxCycle
    /\ LET t == tasks[1]
           r == SwsdResume(state, t.loc, t.at)
       IN  /\ state' = r.state
           /\ ret' = r.ret
           /\ IF r.done
              THEN /\ tasks' = << >>
                   /\ notes' = notes
                   /\ lastOp' = Op("stepReturned", 1)
              ELSE /\ tasks' = << [t EXCEPT !.at = NextAwait(t.at), !.loc = r.loc] >>
                   /\ notes' = Append(notes, Notification(NextAwait(t.at), state, r.state))
                   /\ lastOp' = Op("resumed", 1)
    /\ UNCHANGED <<isStepInProgress, isRunning, quiet, events, source, asm, codec, probe>>

PhaseNext ==
    \/ PhasedCall
    \/ PhasedResume
    \/ StepOnce

PhaseSpec == PhaseInit /\ [][PhaseNext]_vars

----------------------------------------------------------------------------
(* Properties of the fetch boundary and of the phases (PhaseSpec) *)

\* byte address pc, read as unsigned, lies at or above word index 256
FetchOutOfRange(pc) == pc < 0 \/ pc >= 1024

\* C23: a step call (step or stepWithStageDelay) on a core that is not
\* halted and whose pc >> 2 is 256 or more sets halted, returns null and
\* changes no register, no data-memory cell, not pc and not cycle.
OutOfRangeFetchHalts ==
    [][(/\ lastOp'.name \in {"step", "stepReturnedAtOnce"}
        /\ ~state.halted /\ FetchOutOfRange(state.pc)) =>
            state' = [state EXCEPT !.halted = TRUE] /\ ret' = Null]_vars

\* C23 witness: after beq x0,x0,-4 at address 0 was taken, a phased call
\* has returned at once with the core halted at 0xFFFFFFFC, cycle 1.
FetchBelowZeroHalted ==
    /\ lastOp.name = "stepReturnedAtOnce"
    /\ state.halted /\ state.pc = -4 /\ state.cycle = 1
    /\ state.instrMem[0] = B(0, 99, 0, 0, -4)

Stages == <<"FETCH", "DECODE", "EXEC", "MEM", "WB">>

\* C26: a phased call notifies FETCH, DECODE, EXEC, MEM, WB in this order,
\* once each, and is suspended after each; when it returns a result, the
\* store's cell was written when MEM was notified (and not yet at EXEC),
\* rd was written when WB was notified, and pc still held the address of
\* the instruction at every notification, the next pc being set afterwards.
PhasesNotifiedInOrder ==
    /\ Len(notes) <= 5
    /\ \A j \in DOMAIN notes : notes[j].stage = Stages[j]
    /\ tasks # << >> => (notes # << >> /\ tasks[1].at = Stages[Len(notes)])
    /\ (lastOp.name = "stepReturned" /\ ret # Null) =>
          LET r == ret[1] IN
          /\ Len(notes) = 5
          /\ \A j \in 1 .. 5 : notes[j].pc = r.pc_before
          /\ state.pc = r.pc_after
          /\ r.decoded.opcode = 35 =>
                /\ notes[4].dataMem =
                      [notes[3].dataMem EXCEPT ![r.mem_index[1]] = r.rs2_val]
                /\ notes[5].dataMem = notes[4].dataMem
          /\ r.decoded.opcode # 35 => notes[4].dataMem = notes[3].dataMem
          /\ notes[4].regs = notes[1].regs
          /\ r.wb_we => notes[5].regs = [notes[4].regs EXCEPT ![r.wb_rd[1]] = r.wb_val[1]]
          /\ ~r.wb_we => notes[5].regs = notes[4].regs

\* C26 witness: a phased sw x1,4(x0) with x1 = 0xFFFFFFFF has returned: cell
\* 1 held 0xAF at the EXEC notification and 0xFFFFFFFF at the MEM one.
PhasedStoreNotified ==
    /\ lastOp.name = "stepReturned" /\ ret # Null
    /\ ret[1].decoded.opcode = 35
    /\ Len(notes) = 5
    /\ notes[3].dataMem[1] = 175 /\ notes[4].dataMem[1] = -1
    /\ notes[5].pc = 0 /\ state.pc = 4

----------------------------------------------------------------------------
(* Properties of the page's handlers (Spec), continued *)

\* the stepWithStageDelay calls suspended at one of their awaits
Suspended == {i \in DOMAIN tasks : tasks[i].at \in {"FETCH", "DECODE", "EXEC", "MEM", "WB"}}

\* C30: whatever the order of Step, Run/Pause and Reset clicks, at most one
\* stepWithStageDelay call is in flight: none starts while another is
\* suspended between two phases.
AtMostOnePhasedStepInFlight == Cardinality(Suspended) <= 1

----------------------------------------------------------------------------
(* Properties of the programs assembled, loaded and stepped (AsmSpec),
   continued *)

\* the first instruction line after line j of a text, 0 when there is none
NextInstrLine(lines, j) ==
    LET after == {m \in (j + 1) .. Len(lines) : lines[m].k = "ins"} IN
    IF after = {} THEN 0 ELSE CHOOSE m \in after : \A n \in after : m <= n

\* the line of an assembled text whose word is at index k of the words
\* returned
LineOfWord(a, k) ==
    CHOOSE i \in 1 .. Len(a.lines) :
        a.lines[i].k = "ins" /\ i \notin a.warned /\ a.outAt[i] = k

\* the step just made executed a branch word of the loaded text and took it
TookBranch ==
    /\ asm # Null /\ ~asm[1].threw
    /\ lastOp'.name = "step" /\ ret' # Null
    /\ ret'[1].decoded.opcode = 99
    /\ BranchTaken(ret'[1].ctrl, ret'[1].alu_res)

\* C31: for every text that assembles and is loaded, pc after a taken
\* branch is 4 times the instruction-memory index of the word emitted for
\* the first instruction line after the branch's label.
TakenBranchLandsAfterLabel ==
    [][TookBranch =>
        LET a == asm[1]
            i == LineOfWord(a, state.pc \div 4)
            j == LabelLineOf(a.lines, a.lines[i].p[3].s)
            m == NextInstrLine(a.lines, j)
        IN  (m # 0 /\ m \notin a.warned) => state'.pc = 4 * a.outAt[m]]_vars

----------------------------------------------------------------------------
(* ShiftSpec: texts of one or two immediate-shift lines, loaded through
   handleLoad and stepped.  The shifted registers hold their seeds: x1 = 1
   and x3 = 0xFFFFFFFD *)

ShiftMnemonics == {"slli", "srli", "srai"}

\* the immediates written: inside 0..31, and numerals expectImmediate
\* accepts outside it
ShiftImms == {0, 1, 31, 32, 33, 1025, -1}

ShiftRs1 == {1, 3}

\* <mn> x6,x<rs1>,<n>
ShiftLines ==
    {Ins(mn, <<Reg(6), Reg(r), Imm(n)>>) :
        mn \in ShiftMnemonics, r \in ShiftRs1, n \in ShiftImms}

ShiftSources == [{1} -> ShiftLines] \cup [{1, 2} -> ShiftLines]

ShiftInit ==
    /\ state = NewProcessor
    /\ isStepInProgress = FALSE
    /\ isRunning = FALSE
    /\ tasks = << >>
    /\ lastOp = Op("init", 0)
    /\ ret = Null
    /\ quiet = FALSE
    /\ events = 0
    /\ source \in ShiftSources
    /\ asm = Null
    /\ codec = Null
    /\ probe = Null
    /\ notes = << >>

ShiftSpec == ShiftInit /\ [][AsmNext]_vars

----------------------------------------------------------------------------
(* Properties of the immediate shifts (ShiftSpec) *)

\* what the mnemonic names, on the value a of rs1 and the immediate n
ShiftNamed(mn, a, n) ==
    CASE mn = "srai" -> ShiftedInSign(a, n % 32)
      [] mn = "srli" -> ShiftedInZeros(a, n % 32)
      [] mn = "slli" -> Doubled(a, n % 32)

\* C33: every srai / srli / slli line that assembles executes as its
\* mnemonic names, for every immediate n accepted: srai shifts right by
\* n mod 32 replicating the sign, srli shifts right by n mod 32 filling with
\* zeros, slli shifts left by n mod 32.
ShiftLinesExecuteAsNamed ==
    [][(asm # Null /\ ~asm[1].threw /\ lastOp'.name = "step" /\ ret' # Null) =>
        LET line == asm[1].lines[LineOfWord(asm[1], state.pc \div 4)] IN
        line.mn \in ShiftMnemonics =>
            state'.regs[reg(line.p[1])] =
                ShiftNamed(line.mn, state.regs[reg(line.p[2])], immOf(line.p[3]))]_vars

----------------------------------------------------------------------------
(* Properties of the page, continued (Spec) *)

\* C32: a load attempt that raises an error leaves instruction memory, pc,
\* cycle, halted, the registers and the data memory as they were before
\* the attempt.
FailedLoadChangesNothing ==
    [][lastOp'.name = "loadThrew" => state' = state]_vars

----------------------------------------------------------------------------
(* LiveSpec: the page with its timers.  Every setTimeout a suspended
   stepWithStageDelay call or a run loop waits on fires in the end, so a
   continuation that stays enabled is run *)

TimersFire ==
    \A i \in 1 .. MaxTasks :
        /\ WF_vars(i \in DOMAIN tasks /\ Resume(i))
        /\ WF_vars(i \in DOMAIN tasks /\ RunLoop(i))

LiveSpec == Spec /\ TimersFire

\* a suspended call that the cap on the cycle counter keeps from resuming
CycleCapReached ==
    \E i \in Suspended :
        SwsdResume(state, tasks[i].loc, tasks[i].at).state.cycle > MaxCycle

\* once the core is halted while running, the run loop ends
RunLoopEndsOnceHalted ==
    (isRunning /\ state.halted) ~> (~isRunning \/ CycleCapReached)

\* a step of the page that no click made: a timer fired
TimerStep == events' = events

\* while paused no run loop starts a stepWithStageDelay call
NoStepIssuedWhilePaused ==
    [][(~isRunning /\ TimerStep) =>
            lastOp'.name \notin {"stepCalled", "stepReturnedAtOnce"}]_vars

\* at the Pause click at most one stepWithStageDelay call is in flight
OneStepInFlightAtPause ==
    [][lastOp'.name = "pause" => Cardinality(Suspended) <= 1]_vars

\* C34: after Run, once the core is halted (or if it was already) the run
\* loop ends with isRunning = false and issues no further steps; after
\* Pause with no further Run click, at most the one step in flight
\* completes and no more steps are issued.
RunLoopSettles ==
    /\ RunLoopEndsOnceHalted
    /\ NoStepIssuedWhilePaused
    /\ OneStepInFlightAtPause

\* the handlers and continuations that make no step call and reset nothing
NoStepMade ==
    {"edit", "loadThrew", "pause", "handleStepIgnored", "runEndedAtOnce",
     "runLoopEnded"}

\* C35: the cycle counter counts the step() calls that executed an
\* instruction since the last reset or load: reset and load leave it at 0,
\* a step() that returns a result record adds exactly 1, a step() that
\* halts the core or finds it halted leaves it alone, and so does whatever
\* makes no step call.
CycleCountsExecutedSteps ==
    [][/\ lastOp'.name \in {"reset", "load"} => state'.cycle = 0
       /\ (lastOp'.name = "step" /\ ret' # Null) => state'.cycle = state.cycle + 1
       /\ (lastOp'.name = "step" /\ ret' = Null) =>
                state'.cycle = state.cycle /\ state'.halted
       /\ lastOp'.name \in NoStepMade => state'.cycle = state.cycle]_vars

\* C35 witness: the second step() after a load has executed an instruction:
\* the counter is at 2.
SecondStepCounted ==
    lastOp.name = "step" /\ ret # Null /\ state.cycle = 2 /\ quiet = FALSE

----------------------------------------------------------------------------
(* LongSpec: programs that fill the instruction memory, or overflow it by
   one line, loaded by cpu.loadProgram and stepped by cpu.step() until the
   core halts *)

MaxCalls == 258    \* step() calls made after one load

\* the number of word lines of a text
LongLengths == {0, 1, InstrMemSize - 1, InstrMemSize, InstrMemSize + 1}

\* the word every line of a text holds: addi x1,x0,1 ; sw x1,0(x0) ;
\* lw x2,0(x0) ; jal x1,-8 and lui x3,1 as assembleLine encodes them ;
\* beq x0,x0,0
LongWords ==
    {I(0, 19, 1, 0, 1), S(2, 35, 0, 1, 0), I(2, 3, 2, 0, 0),
     encodeJ(-8, 1, 111), encodeU(1, 3, 55), B(0, 99, 0, 0, 0)}

LongSources ==
    {ProgramText([j \in 1 .. n |-> w]) : n \in LongLengths, w \in LongWords}

LongInit ==
    /\ state = NewProcessor
    /\ isStepInProgress = FALSE
    /\ isRunning = FALSE
    /\ tasks = << >>
    /\ lastOp = Op("init", 0)
    /\ ret = Null
    /\ quiet = FALSE
    /\ events = 0
    /\ source \in LongSources
    /\ asm = Null
    /\ codec = Null
    /\ probe = Null
    /\ notes = << >>

\* cpu.loadProgram(text), on the fresh page and again once the core has
\* halted: ret is the count returned; events counts the step() calls made
\* since
LongLoad ==
    LET r == loadProgram(state, source) IN
    /\ lastOp.name = "init" \/ state.halted
    /\ state' = r.state
    /\ ret' = Some(r.ret)
    /\ lastOp' = Op("load", 0)
    /\ events' = 0
    /\ quiet' = TRUE
    /\ UNCHANGED <<isStepInProgress, isRunning, tasks, bench>>

\* cpu.step()
LongStep ==
    /\ lastOp.name # "init"
    /\ events < MaxCalls
    /\ LET r == step(state) IN
       /\ state' = r.state
       /\ ret' = r.ret
    /\ lastOp' = Op("step", 0)
    /\ events' = events + 1
    /\ quiet' = FALSE
    /\ UNCHANGED <<isStepInProgress, isRunning, tasks, bench>>

LongNext ==
    \/ LongLoad
    \/ LongStep

LongSpec == LongInit /\ [][LongNext]_vars

----------------------------------------------------------------------------
(* Properties of long programs (LongSpec) *)

\* C36: for a loaded program without a branch word, every instruction
\* step() executes moves pc forward by 4, and the core is halted once 257
\* step calls have been made from the reset that ends the load.
StraightLineProgramHalts ==
    [][(lastOp'.name = "step" /\ NoBranchBefore(state, InstrMemSize)) =>
            /\ ret' # Null => state'.pc = state.pc + 4
            /\ events' >= InstrMemSize + 1 => state'.halted]_vars

\* C36 witness: a program of 256 non-branch words has been stepped 257
\* times: 256 instructions executed, and the last call halted the core at
\* pc = 1024.
FullProgramRanOut ==
    /\ lastOp.name = "step" /\ events = InstrMemSize + 1
    /\ NoBranchBefore(state, InstrMemSize)
    /\ state.cycle = InstrMemSize /\ state.pc = 4 * InstrMemSize
    /\ state.halted /\ ret = Null

\* C37: loadProgram returns the number of words it stored in the
\* instruction memory, for every text, those of more than 256 word lines
\* included (every word of the texts loaded here is nonzero).
LoadReturnsWordsStored ==
    lastOp.name = "load" =>
        ret = Some(Cardinality({i \in InstrIdx : state.instrMem[i] # 0}))

====
